---- MODULE Spec2Model ----
(***************************************************************************)
(* The credential cache of krb5-provision-keytab                           *)
(* (rust/krb5-provision-keytab/src/credential_cache.rs): CredentialCache   *)
(* instances over one backing Secret, the tasks that call get_or_insert on *)
(* them, the generators those calls run and the store that answers their   *)
(* patches.                                                                *)
(***************************************************************************)
EXTENDS Integers, Sequences, FiniteSets, TLC

\* ------------------------------------------------------------------ bounds
NumInstances == 2
NumTasks == 2
\* get_or_insert calls made in one run
MaxCalls == 2

\* KrbContext values of one run, and wrappers alive at once
NumContexts == 2
MaxDerivations == 2
MaxEntries == 2
MaxRequests == 2
MaxObjs == 3

\* The logical keys and the byte strings of the record
Keys == {"svc1", "svc2"}
Values == {"KEY1", "KEY2"}
Instances == 1..NumInstances
Tasks == 1..NumTasks
Ctxs == 1..NumContexts
\* The wrapper types that own native memory, the borrowed views, and the
\* places of the wrappers and views of a run: one of each type at a time
Owners == {"Principal", "DefaultRealm", "KrbData", "Keyblock", "Keytab",
           "ServerHandle", "KeyDataVec"}
ViewKinds == {"KeyblockRef", "KeyDataRef", "Bytes"}
Objs == Owners \cup ViewKinds

\* ------------------------------------------------------------- data model
\* Option<T>: None is the empty sequence, Some(x) the one-element sequence.
None == <<>>
Some(x) == <<x>>

\* A Secret's data: a map from some of the keys to byte strings. A Secret
\* whose data is None and one whose data is the empty map answer every
\* lookup alike (get_if_present), so both are the empty map here.
SecretData == UNION {[D -> Values] : D \in SUBSET Keys}
EmptyData == <<>>

OPERATOR_NAME == "secrets.stackable.tech"
FIELD_MANAGER_SCOPE == "krb5-provision-keytab"
\* format!("{OPERATOR_NAME}/{FIELD_MANAGER_SCOPE}")
FieldManager == OPERATOR_NAME \o "/" \o FIELD_MANAGER_SCOPE

\* The identity of the backing record, carried by Ctx and by every error.
CacheRef == "ns/cache"

VARIABLES
    store,      \* the backing Secret: [exists, data]
    inst,       \* inst[i]: slot i: what CredentialCache::new returned for it, and
                \* the instance's current_state
    call,       \* call[t]: the get_or_insert call task t made last
    calls       \* get_or_insert calls made

vars == <<store, inst, call, calls>>

\* The wrappers of rust/krb5 (lib.rs, kadm5.rs) and the native library under
\* them.
VARIABLES
    kctx,       \* kctx[c]: KrbContext c and its native context: "none" (not
                \* created), "live", or "freed" (dropped, krb5_free_context called)
    obj,        \* obj[o]: the wrapper or borrowed view of type o
    op,         \* the wrapper operation called last, with its arguments
    ncalls,     \* the native calls the last operation made, in order
    outcome     \* what the last operation returned to its caller

kvars == <<kctx, obj, op, ncalls, outcome>>

\* What the native library and the administration service hold behind the
\* wrappers of one KrbContext: the data the wrappers' operations read and
\* write.
VARIABLES
    config,     \* the default realm of the context: None before the context exists
    parsed,     \* the krb5_principal behind the caller's Principal, or None
    service,    \* the principals of the administration service
    session,    \* whether the caller holds a ServerHandle
    salt_data,  \* the bytes behind the caller's KrbData, or None
    key_block,  \* the krb5_keyblock behind the caller's Keyblock, or None
    key_table,  \* the keytab: whether the caller holds a Keytab of it, and its
                \* entries
    derived     \* the keys from_password returned so far, with what they
                \* were derived from

nvars == <<config, parsed, service, session, salt_data, key_block, key_table, derived>>

\* The volume service (src/main.rs)
VARIABLES
    publish,    \* publish[r]: NodePublishVolume request r: where its handler
                \* stands, what it got from the backend and has not written yet,
                \* what it returned; and, to observe it, how often it called the
                \* backend and the paths it wrote
    mounted     \* mounted[target_path]: the files under the target path

pvars == <<publish, mounted>>

allvars == <<vars, kvars, nvars, pvars>>

\* ------------------------------------------------------ results and errors
\* Result<Result<&[u8], Fut::Error>, Error> of get_or_insert
OkValue(v) == [kind |-> "Ok", value |-> v]
GenerateFailed == [kind |-> "GenerateFailed"]
\* The kube::Error a failed request to the store comes back with
KubeError == "kube::Error"
SaveToCache(k) ==
    [kind |-> "SaveToCache", source |-> KubeError, key |-> k, cache_ref |-> CacheRef]
SavedKeyNotFound(k) == [kind |-> "SavedKeyNotFound", key |-> k, cache_ref |-> CacheRef]
\* Result<Self, Error> of CredentialCache::new
GetInitialCache ==
    [kind |-> "GetInitialCache", source |-> KubeError, cache_ref |-> CacheRef]
NewOk == [kind |-> "Ok"]
NoResult == [kind |-> "none"]

\* ------------------------------------------------------------ pure helpers
\* A lookup that finds the key but hands out the bytes of another entry.
get_if_present_OtherEntry(current_state, key) ==
    IF key \in DOMAIN current_state
    THEN Some(current_state[CHOOSE j \in DOMAIN current_state :
                               j # key \/ DOMAIN current_state = {key}])
    ELSE None

\* A lookup that never finds anything.
get_if_present_Never(current_state, key) == None

\* fn get_if_present(&self, key) -> Option<&[u8]>
get_if_present(current_state, key) ==
    IF key \in DOMAIN current_state THEN Some(current_state[key]) ELSE None

\* A patch body that carries the whole local state along with the new pair.
PatchData_WholeState(current_state, key, value) == (key :> value) @@ current_state

\* A patch body that files the bytes under one fixed key.
PatchData_WrongKey(current_state, key, value) == "svc1" :> value

\* The body of the patch: Secret { data: Some([(key, value)].into()), ..default }
PatchData(current_state, key, value) == key :> value

\* The patch request get_or_insert sends for (key, value)
PatchRequest(current_state, key, value) ==
    [field_manager |-> FieldManager, kind |-> "Merge",
     data |-> PatchData(current_state, key, value)]

\* A patch that replaces the record's data instead of merging into it.
MergePatch_Replace(data, patch) == patch

\* Patch::Merge as the store applies it: every key the patch names is set,
\* every other key of the record keeps its value.
MergePatch(data, patch) ==
    [k \in (DOMAIN data) \cup (DOMAIN patch) |->
        IF k \in DOMAIN patch THEN patch[k] ELSE data[k]]

\* A record with key k left out: the answer of a store that accepted a write
\* but does not reflect it.
Without(data, k) == [j \in (DOMAIN data) \ {k} |-> data[j]]

\* An idempotent generator: the bytes every successful invocation for key k
\* yields.
IdemValue(k) == IF k = "svc1" THEN "KEY1" ELSE "KEY2"

\* ------------------------------------------------------------------- calls
\* A task's last call: its position (pc), the instance and key it was made
\* with, how often it invoked mk_value (gens) and the bytes that returned
\* (value), the patches it sent, the store's answer, and what it returned.
IdleCall ==
    [pc |-> "idle", self |-> 0, key |-> "", gens |-> 0, value |-> None,
     sent |-> <<>>, response |-> None, result |-> NoResult]

\* The phases in which a call's future is alive, or its result still refers
\* into the instance: get_or_insert takes &mut self and returns a reference
\* with that borrow's lifetime.
BorrowPhases == {"generating", "patching", "returned"}

\* A receiver that is not exclusive (&self).
Borrowed_Shared(i, t) == FALSE

\* &mut self: instance i is exclusively borrowed by the call of a task other
\* than t
Borrowed(i, t) ==
    \E u \in Tasks \ {t} : call[u].pc \in BorrowPhases /\ call[u].self = i

Live(i) == inst[i].new = NewOk

\* What is left of a call whose future was dropped in phase c.pc: nothing but
\* the phase it was dropped in.
Cancelled(c) == [IdleCall EXCEPT !.pc = "cancelled", !.result = [kind |-> c.pc]]

\* The patch a call in its save phase has sent
Request(t) == call[t].sent[Len(call[t].sent)]

\* ---------------------------------------------------------- krb5 wrappers
\* No wrapper of a type
NoObj == [kind |-> "none", ctx |-> 0, owner |-> "none", count |-> 0]

\* A wrapper struct or a borrowed view: its type (kind), the KrbContext its
\* ctx field borrows, the wrapper its lifetime borrows from (owner, "none"
\* when it borrows nothing but its context), and key_count of a KeyDataVec
\* or the length of a byte view.
Wrapper(kind, c, owner, count) ==
    [kind |-> kind, ctx |-> c, owner |-> owner, count |-> count]

\* A call of a wrapper operation: its name and the arguments that are not
\* wrappers of a fixed type
Op(fn, args) == [fn |-> fn, args |-> args]

\* The state before any wrapper call
KrbInit ==
    /\ kctx = [c \in Ctxs |-> "none"]
    /\ obj = [o \in Objs |-> NoObj]
    /\ op = Op("none", <<>>)
    /\ ncalls = <<>>
    /\ outcome = NoResult

\* ------------------------------------------------------------------- Init
\* Nothing exists behind the wrappers before the first call
NativeInit ==
    /\ config = None
    /\ parsed = None
    /\ service = {}
    /\ session = FALSE
    /\ salt_data = None
    /\ key_block = None
    /\ key_table = [open |-> FALSE, entries |-> <<>>]
    /\ derived = <<>>

\* The target paths of the volumes. At the start no request was received,
\* and nothing is under any target path.
TargetPaths == {"/pods/a", "/pods/b"}

Init ==
    /\ KrbInit
    /\ NativeInit
    /\ publish = [r \in 1..MaxRequests |->
                    [pc |-> "none", target_path |-> "", pending |-> {},
                     result |-> NoResult, fetches |-> 0, wrote |-> {}]]
    /\ mounted = [t \in TargetPaths |-> {}]
    /\ store \in {[exists |-> FALSE, data |-> EmptyData]}
                 \cup {[exists |-> TRUE, data |-> d] : d \in SecretData}
    /\ inst = [i \in Instances |-> [new |-> NoResult, current_state |-> EmptyData]]
    /\ call = [t \in Tasks |-> IdleCall]
    /\ calls = 0

\* ---------------------------------------------------------------- actions
\* A new that creates the backing record when there is none.
New_Creates(i) ==
    /\ ~Live(i)
    /\ \E reachable \in BOOLEAN :
        IF reachable
        THEN /\ inst' = [inst EXCEPT ![i] = [new |-> NewOk, current_state |-> store.data]]
             /\ store' = [store EXCEPT !.exists = TRUE]
        ELSE /\ inst' = [inst EXCEPT ![i].new = GetInitialCache]
             /\ UNCHANGED store
    /\ UNCHANGED <<call, calls>>
    /\ UNCHANGED <<kvars, nvars, pvars>>

\* CredentialCache::new: loads the current state of the backing record; fails
\* when the record does not exist or the store cannot be reached.
New(i) ==
    /\ ~Live(i)
    /\ \E reachable \in BOOLEAN :
        IF store.exists /\ reachable
        THEN inst' = [inst EXCEPT ![i] = [new |-> NewOk, current_state |-> store.data]]
        ELSE inst' = [inst EXCEPT ![i].new = GetInitialCache]
    /\ UNCHANGED <<store, call, calls>>
    /\ UNCHANGED <<kvars, nvars, pvars>>

\* A get_or_insert that reserves the key in current_state before it awaits
\* the generator.
GetOrInsert_Reserves(t, i, k) ==
    /\ call[t].pc \in {"idle", "returned", "cancelled"}
    /\ Live(i)
    /\ ~Borrowed(i, t)
    /\ calls < MaxCalls
    /\ calls' = calls + 1
    /\ LET found == get_if_present(inst[i].current_state, k)
           begun == [IdleCall EXCEPT !.self = i, !.key = k]
       IN IF found # None
          THEN /\ call' = [call EXCEPT ![t] =
                      [begun EXCEPT !.pc = "returned", !.result = OkValue(found[1])]]
               /\ UNCHANGED inst
          ELSE /\ call' = [call EXCEPT ![t] =
                      [begun EXCEPT !.pc = "generating", !.gens = 1]]
               /\ inst' = [inst EXCEPT ![i].current_state = (k :> "KEY1") @@ @]
    /\ UNCHANGED store
    /\ UNCHANGED <<kvars, nvars, pvars>>

\* A get_or_insert that looks the key up in the backing record.
GetOrInsert_ReadsStore(t, i, k) ==
    /\ call[t].pc \in {"idle", "returned", "cancelled"}
    /\ Live(i)
    /\ ~Borrowed(i, t)
    /\ calls < MaxCalls
    /\ calls' = calls + 1
    /\ LET found == get_if_present(store.data, k)
           begun == [IdleCall EXCEPT !.self = i, !.key = k]
       IN IF found # None
          THEN call' = [call EXCEPT ![t] =
                   [begun EXCEPT !.pc = "returned", !.result = OkValue(found[1])]]
          ELSE call' = [call EXCEPT ![t] =
                   [begun EXCEPT !.pc = "generating", !.gens = 1]]
    /\ UNCHANGED <<store, inst>>
    /\ UNCHANGED <<kvars, nvars, pvars>>

\* get_or_insert, up to its first suspension: a hit returns the stored bytes,
\* a miss invokes mk_value and awaits it. The caller has let go of what its
\* previous call returned.
GetOrInsert(t, i, k) ==
    /\ call[t].pc \in {"idle", "returned", "cancelled"}
    /\ Live(i)
    /\ ~Borrowed(i, t)
    /\ calls < MaxCalls
    /\ calls' = calls + 1
    /\ LET found == get_if_present(inst[i].current_state, k)
           begun == [IdleCall EXCEPT !.self = i, !.key = k]
       IN IF found # None
          THEN call' = [call EXCEPT ![t] =
                   [begun EXCEPT !.pc = "returned", !.result = OkValue(found[1])]]
          ELSE call' = [call EXCEPT ![t] =
                   [begun EXCEPT !.pc = "generating", !.gens = 1]]
    /\ UNCHANGED <<store, inst>>
    /\ UNCHANGED <<kvars, nvars, pvars>>

\* mk_value returned Ok(value): the patch is sent and awaited.
MkValueOk(t, v) ==
    /\ call[t].pc = "generating"
    /\ call' = [call EXCEPT ![t].pc = "patching", ![t].value = Some(v),
                   ![t].sent = Append(@, PatchRequest(inst[call[t].self].current_state,
                                                      call[t].key, v))]
    /\ UNCHANGED <<store, inst, calls>>
    /\ UNCHANGED <<kvars, nvars, pvars>>

\* A failure that is cached: the key is marked in current_state.
MkValueErr_NegativeCache(t) ==
    /\ call[t].pc = "generating"
    /\ call' = [call EXCEPT ![t].pc = "returned", ![t].result = GenerateFailed]
    /\ inst' = [inst EXCEPT ![call[t].self].current_state = (call[t].key :> "KEY1") @@ @]
    /\ UNCHANGED <<store, calls>>
    /\ UNCHANGED <<kvars, nvars, pvars>>

\* mk_value returned Err(err): Ok(Err(err)), nothing saved.
MkValueErr(t) ==
    /\ call[t].pc = "generating"
    /\ call' = [call EXCEPT ![t].pc = "returned", ![t].result = GenerateFailed]
    /\ UNCHANGED <<store, inst, calls>>
    /\ UNCHANGED <<kvars, nvars, pvars>>

\* A save that inserts its own pair locally instead of taking the answer.
Saved_LocalInsert(t, response) ==
    /\ inst' = [inst EXCEPT ![call[t].self].current_state =
                   (call[t].key :> call[t].value[1]) @@ @]
    /\ call' = [call EXCEPT ![t].pc = "returned", ![t].response = Some(response),
                   ![t].result = OkValue(call[t].value[1])]

\* A save that reports a key missing from the answer as a failed save.
Saved_MissingIsSaveError(t, response) ==
    LET i == call[t].self
        k == call[t].key
        found == get_if_present(response, k)
    IN /\ inst' = [inst EXCEPT ![i].current_state = response]
       /\ call' = [call EXCEPT ![t].pc = "returned", ![t].response = Some(response),
                      ![t].result = IF found # None THEN OkValue(found[1])
                                                     ELSE SaveToCache(k)]

\* The rest of get_or_insert once the patch is answered with `response`: it
\* replaces current_state, and the key is looked up in it.
Saved(t, response) ==
    LET i == call[t].self
        k == call[t].key
        found == get_if_present(response, k)
    IN /\ inst' = [inst EXCEPT ![i].current_state = response]
       /\ call' = [call EXCEPT ![t].pc = "returned", ![t].response = Some(response),
                      ![t].result = IF found # None THEN OkValue(found[1])
                                                     ELSE SavedKeyNotFound(k)]

\* The store applies the patch and answers with the resulting record.
PatchOk(t) ==
    /\ call[t].pc = "patching"
    /\ store.exists
    /\ LET merged == MergePatch(store.data, Request(t).data)
       IN /\ store' = [store EXCEPT !.data = merged]
          /\ Saved(t, merged)
    /\ UNCHANGED calls
    /\ UNCHANGED <<kvars, nvars, pvars>>

\* The store accepts the patch but its answer does not hold the key.
PatchUnreflected(t) ==
    /\ call[t].pc = "patching"
    /\ store.exists
    /\ Saved(t, Without(store.data, call[t].key))
    /\ UNCHANGED <<store, calls>>
    /\ UNCHANGED <<kvars, nvars, pvars>>

\* A failed save whose error carries the body of the request.
PatchErr_CarriesBody(t) ==
    /\ call[t].pc = "patching"
    /\ \E applied \in BOOLEAN :
        IF applied /\ store.exists
        THEN store' = [store EXCEPT !.data = MergePatch(store.data, Request(t).data)]
        ELSE UNCHANGED store
    /\ call' = [call EXCEPT ![t].pc = "returned",
                   ![t].result = [SaveToCache(call[t].key) EXCEPT
                                     !.source = Request(t).data[call[t].key]]]
    /\ UNCHANGED <<inst, calls>>
    /\ UNCHANGED <<kvars, nvars, pvars>>

\* A failed save that keeps the generated bytes in current_state.
PatchErr_KeepsValue(t) ==
    /\ call[t].pc = "patching"
    /\ \E applied \in BOOLEAN :
        IF applied /\ store.exists
        THEN store' = [store EXCEPT !.data = MergePatch(store.data, Request(t).data)]
        ELSE UNCHANGED store
    /\ call' = [call EXCEPT ![t].pc = "returned", ![t].result = SaveToCache(call[t].key)]
    /\ inst' = [inst EXCEPT ![call[t].self].current_state =
                   (call[t].key :> call[t].value[1]) @@ @]
    /\ UNCHANGED calls
    /\ UNCHANGED <<kvars, nvars, pvars>>

\* The patch fails: it is rejected or never reaches the store, or the store
\* applied it and its answer is lost.
PatchErr(t) ==
    /\ call[t].pc = "patching"
    /\ \E applied \in BOOLEAN :
        IF applied /\ store.exists
        THEN store' = [store EXCEPT !.data = MergePatch(store.data, Request(t).data)]
        ELSE UNCHANGED store
    /\ call' = [call EXCEPT ![t].pc = "returned", ![t].result = SaveToCache(call[t].key)]
    /\ UNCHANGED <<inst, calls>>
    /\ UNCHANGED <<kvars, nvars, pvars>>

\* The task is aborted while its generator is suspended: the future is
\* dropped.
CancelGenerating(t) ==
    /\ call[t].pc = "generating"
    /\ call' = [call EXCEPT ![t] = Cancelled(call[t])]
    /\ UNCHANGED <<store, inst, calls>>
    /\ UNCHANGED <<kvars, nvars, pvars>>

\* The task is aborted while the patch is awaited: the store may have
\* applied it already.
CancelPatching(t) ==
    /\ call[t].pc = "patching"
    /\ \E applied \in BOOLEAN :
        IF applied /\ store.exists
        THEN store' = [store EXCEPT !.data = MergePatch(store.data, Request(t).data)]
        ELSE UNCHANGED store
    /\ call' = [call EXCEPT ![t] = Cancelled(call[t])]
    /\ UNCHANGED <<inst, calls>>
    /\ UNCHANGED <<kvars, nvars, pvars>>

\* The caller lets go of the call's result (or of the cancelled call).
Finish(t) ==
    /\ call[t].pc \in {"returned", "cancelled"}
    /\ call' = [call EXCEPT ![t] = IdleCall]
    /\ UNCHANGED <<store, inst, calls>>
    /\ UNCHANGED <<kvars, nvars, pvars>>

\* mk_value of an idempotent generator returned Ok.
MkValueOkIdem(t) ==
    /\ call[t].pc = "generating"
    /\ MkValueOk(t, IdemValue(call[t].key))

Next ==
    \/ \E i \in Instances : New(i)
    \/ \E t \in Tasks, i \in Instances, k \in Keys : GetOrInsert(t, i, k)
    \/ \E t \in Tasks, v \in Values : MkValueOk(t, v)
    \/ \E t \in Tasks : MkValueErr(t)
    \/ \E t \in Tasks : PatchOk(t)
    \/ \E t \in Tasks : PatchUnreflected(t)
    \/ \E t \in Tasks : PatchErr(t)
    \/ \E t \in Tasks : CancelGenerating(t)
    \/ \E t \in Tasks : CancelPatching(t)
    \/ \E t \in Tasks : Finish(t)

Spec == Init /\ [][Next]_allvars

\* Every generator is idempotent.
NextIdem ==
    \/ \E i \in Instances : New(i)
    \/ \E t \in Tasks, i \in Instances, k \in Keys : GetOrInsert(t, i, k)
    \/ \E t \in Tasks : MkValueOkIdem(t)
    \/ \E t \in Tasks : MkValueErr(t)
    \/ \E t \in Tasks : PatchOk(t)
    \/ \E t \in Tasks : PatchUnreflected(t)
    \/ \E t \in Tasks : PatchErr(t)
    \/ \E t \in Tasks : CancelGenerating(t)
    \/ \E t \in Tasks : CancelPatching(t)
    \/ \E t \in Tasks : Finish(t)

SpecIdem == Init /\ [][NextIdem]_allvars

TypeOK ==
    /\ store \in [exists : BOOLEAN, data : SecretData]
    /\ \A i \in Instances : inst[i].current_state \in SecretData
    /\ \A t \in Tasks : call[t].pc \in BorrowPhases \cup {"idle", "cancelled"}
    /\ calls \in 0..MaxCalls

\* ======================================================= rust/krb5: lib.rs
\* ------------------------------------------------------- the native layer
\* Status codes a native call returns: 0 is success.
Codes == {0, 1}

\* What a native call allocates or releases: a context, the native object
\* behind the wrapper of type o, an error message buffer, or the buffer of an
\* unparsed name.
CtxMem(c) == <<"ctx", c, 0>>
ObjMem(o) == <<"obj", o>>
MsgMem == <<"msg">>
NameMem == <<"name">>
NoMem == <<>>

\* One call into libkrb5 or libkadm5: the function, the raw context passed (0:
\* null, or the function takes none), the wrappers whose raw handles are
\* passed, a scalar argument (a code or a length), the status
\* returned (0 for a void function), and what the call allocated and released.
NativeCall(fn, c, handles, status) ==
    [fn |-> fn, ctx |-> c, handles |-> handles, arg |-> None, status |-> status,
     makes |-> NoMem, frees |-> NoMem]

\* A call that allocates m when it succeeds
Making(nc, m) == [nc EXCEPT !.makes = IF nc.status = 0 THEN m ELSE NoMem]
\* A call that releases m
Freeing(nc, m) == [nc EXCEPT !.frees = m]
\* A call with a scalar argument
WithArg(nc, x) == [nc EXCEPT !.arg = Some(x)]

\* () and Ok(..)
Unit == <<>>
Ok(v) == [kind |-> "Ok", value |-> v]
\* Error::Krb5 { reason: Krb5Error { message, code } }
Krb5Error(message, code) == [kind |-> "Krb5", message |-> message, code |-> code]
\* Error::StringTooLong { source, string_name }
StringTooLong(string_name) ==
    [kind |-> "StringTooLong", source |-> "TryFromIntError", string_name |-> string_name]
\* A panic (unwrap or expect on an Err) with its message
Panic(message) == [kind |-> "panic", message |-> message]

\* A C string of the library: its text and whether its bytes are valid UTF-8
CString(text, valid_utf8) == [text |-> text, valid_utf8 |-> valid_utf8]
\* krb5_get_error_message(raw_ctx, code): the library's message for a code
LibMessage(raw_ctx, code) ==
    CString(IF raw_ctx = 0 THEN "generic message" ELSE "context message", TRUE)
\* CStr::to_string_lossy().into_owned(): an owned String; invalid bytes become
\* U+FFFD
to_string_lossy(c_str) ==
    IF c_str.valid_utf8 THEN c_str.text ELSE c_str.text \o " U+FFFD"

\* A from_call_result that fetches the message and never frees its buffer.
from_call_result_Leaks(ctx, code) ==
    IF code = 0
    THEN [result |-> Ok(Unit), ncalls |-> <<>>]
    ELSE LET raw_ctx == IF ctx = None THEN 0 ELSE ctx[1]
         IN [result |-> Krb5Error(to_string_lossy(LibMessage(raw_ctx, code)), code),
             ncalls |-> <<Making(WithArg(NativeCall("krb5_get_error_message",
                                                    raw_ctx, <<>>, 0), code), MsgMem)>>]

\* unsafe fn from_call_result(ctx: Option<&KrbContext>, code) -> Result<(), Self>:
\* what it returns and the native calls it makes.
from_call_result(ctx, code) ==
    IF code = 0
    THEN [result |-> Ok(Unit), ncalls |-> <<>>]
    ELSE LET raw_ctx == IF ctx = None THEN 0 ELSE ctx[1]
             c_msg == LibMessage(raw_ctx, code)
             rust_msg == to_string_lossy(c_msg)
         IN [result |-> Krb5Error(rust_msg, code),
             ncalls |-> <<Making(WithArg(NativeCall("krb5_get_error_message",
                                                    raw_ctx, <<>>, 0), code), MsgMem),
                          Freeing(NativeCall("krb5_free_error_message",
                                             raw_ctx, <<>>, 0), MsgMem)>>]

\* ---------------------------------------------------------------- helpers
\* The wrappers and views alive
Alive == {o \in Objs : obj[o].kind # "none"}

\* A wrapper or view of type o can come to be: none of its type is alive, and
\* fewer than MaxObjs wrappers are.
FreeSlot(o) ==
    /\ obj[o].kind = "none"
    /\ o \in ViewKinds \/ Cardinality(Alive \cap Owners) < MaxObjs

\* A drop that does not care who still borrows the value.
Borrowers_Ignored(o) == {}

\* The wrappers and views whose lifetime borrows from the wrapper of type o
Borrowers(o) == {v \in Objs : obj[v].kind # "none" /\ obj[v].owner = o}

\* The wrappers and views that hold a borrow of KrbContext c
CtxBorrowers(c) == {v \in Objs : obj[v].kind # "none" /\ obj[v].ctx = c}

\* The end of a constructor: after the native calls `made`, the checked
\* status `result` decides whether wrapper w of type o comes to be. `called`
\* is the operation.
Constructed(called, o, w, made, result) ==
    /\ op' = called
    /\ ncalls' = made
    /\ IF result = Ok(Unit)
       THEN obj' = [obj EXCEPT ![o] = w] /\ outcome' = Ok(ObjMem(o))
       ELSE UNCHANGED obj /\ outcome' = result
    /\ UNCHANGED <<kctx, vars, nvars, pvars>>

\* An operation `called` that makes the native calls `made`, returns `result`
\* and leaves every wrapper as it is
Called(called, made, result) ==
    /\ op' = called
    /\ ncalls' = made
    /\ outcome' = result
    /\ UNCHANGED <<kctx, obj, vars, nvars, pvars>>

\* Drop of the wrapper of type o: nothing borrows from it any more; drop
\* makes the native calls `made`.
Dropped(o, made, result) ==
    /\ obj[o].kind = o
    /\ op' = Op("drop", <<o>>)
    /\ Borrowers(o) = {}
    /\ obj' = [obj EXCEPT ![o] = NoObj]
    /\ ncalls' = made
    /\ outcome' = result
    /\ UNCHANGED <<kctx, vars, nvars, pvars>>

\* ------------------------------------------------------------- KrbContext
\* KrbContext::new
KrbContextNew(c) ==
    /\ kctx[c] = "none"
    /\ \A b \in Ctxs : b < c => kctx[b] # "none"
    /\ \E code \in Codes :
        LET checked == from_call_result(None, code)
        IN /\ op' = Op("KrbContext::new", <<c>>)
           /\ ncalls' = <<Making(NativeCall("krb5_init_context", 0, <<>>, code),
                                 CtxMem(c))>> \o checked.ncalls
           /\ IF checked.result = Ok(Unit)
              THEN kctx' = [kctx EXCEPT ![c] = "live"] /\ outcome' = Ok(CtxMem(c))
              ELSE UNCHANGED kctx /\ outcome' = checked.result
    /\ UNCHANGED <<obj, vars, nvars, pvars>>

\* A KrbContext that can be dropped while wrappers still borrow it.
DropKrbContext_Unguarded(c) ==
    /\ kctx[c] = "live"
    /\ kctx' = [kctx EXCEPT ![c] = "freed"]
    /\ op' = Op("KrbContext::drop", <<c>>)
    /\ ncalls' = <<Freeing(NativeCall("krb5_free_context", c, <<>>, 0), CtxMem(c))>>
    /\ outcome' = Ok(Unit)
    /\ UNCHANGED <<obj, vars, nvars, pvars>>

\* impl Drop for KrbContext: no wrapper borrows the context any more.
DropKrbContext(c) ==
    /\ kctx[c] = "live"
    /\ CtxBorrowers(c) = {}
    /\ kctx' = [kctx EXCEPT ![c] = "freed"]
    /\ op' = Op("KrbContext::drop", <<c>>)
    /\ ncalls' = <<Freeing(NativeCall("krb5_free_context", c, <<>>, 0), CtxMem(c))>>
    /\ outcome' = Ok(Unit)
    /\ UNCHANGED <<obj, vars, nvars, pvars>>

\* KrbContext::parse_principal_name
parse_principal_name(c) ==
    /\ kctx[c] = "live"
    /\ FreeSlot("Principal")
    /\ \E code \in Codes :
           LET o == "Principal"
               checked == from_call_result(None, code)
           IN Constructed(Op("KrbContext::parse_principal_name", <<c>>),
                  o, Wrapper(o, c, "none", 0),
                  <<Making(NativeCall("krb5_parse_name", c, <<>>, code), ObjMem(o))>>
                      \o checked.ncalls,
                  checked.result)

\* KrbContext::default_realm
default_realm(c) ==
    /\ kctx[c] = "live"
    /\ FreeSlot("DefaultRealm")
    /\ \E code \in Codes :
           LET o == "DefaultRealm"
               checked == from_call_result(Some(c), code)
           IN Constructed(Op("KrbContext::default_realm", <<c>>),
                  o, Wrapper(o, c, "none", 0),
                  <<Making(NativeCall("krb5_get_default_realm", c, <<>>, code),
                           ObjMem(o))>> \o checked.ncalls,
                  checked.result)

\* impl Drop for DefaultRealm
DropDefaultRealm ==
    LET o == "DefaultRealm"
    IN Dropped(o, <<Freeing(NativeCall("krb5_free_default_realm", obj[o].ctx, <<o>>, 0),
                            ObjMem(o))>>,
               Ok(Unit))

\* -------------------------------------------------------------- Principal
\* Principal::default_salt: the salt borrows the principal's context ('a), not
\* the principal.
default_salt ==
    /\ obj["Principal"].kind = "Principal"
    /\ FreeSlot("KrbData")
    /\ \E code \in Codes :
           LET p == "Principal"
               o == "KrbData"
               c == obj[p].ctx
               checked == from_call_result(Some(c), code)
           IN Constructed(Op("Principal::default_salt", <<>>),
                  o, Wrapper(o, c, "none", 0),
                  <<Making(NativeCall("krb5_principal2salt", c, <<p>>, code),
                           ObjMem(o))>> \o checked.ncalls,
                  checked.result)

\* The name krb5_unparse_name_flags writes for a principal
UnparsedName == CString("user@REALM", TRUE)

\* Principal::unparse: what it returns and the native calls it makes, given
\* the status of krb5_unparse_name_flags.
Unparse(code) ==
    LET p == "Principal"
        c == obj[p].ctx
        checked == from_call_result(Some(c), code)
        unparse == NativeCall("krb5_unparse_name_flags", c, <<p>>, code)
    IN IF checked.result = Ok(Unit)
       THEN [result |-> Ok(to_string_lossy(UnparsedName)),
             ncalls |-> <<Making(unparse, NameMem),
                          Freeing(NativeCall("krb5_free_unparsed_name", c, <<>>, 0),
                                  NameMem)>>]
       ELSE [result |-> checked.result, ncalls |-> <<unparse>> \o checked.ncalls]

\* Principal::unparse
unparse ==
    /\ obj["Principal"].kind = "Principal"
    /\ \E code \in Codes :
        Called(Op("Principal::unparse", <<>>), Unparse(code).ncalls, Unparse(code).result)

\* impl Display for Principal, and From<&Principal> for String through
\* to_string: the name, or "(invalid)" when unparse fails.
Display ==
    /\ obj["Principal"].kind = "Principal"
    /\ \E code \in Codes :
        LET name == Unparse(code)
        IN Called(Op("Principal::fmt", <<>>), name.ncalls,
                  Ok(IF name.result.kind = "Ok" THEN name.result.value ELSE "(invalid)"))

\* impl Drop for Principal
DropPrincipal ==
    LET o == "Principal"
    IN Dropped(o, <<Freeing(NativeCall("krb5_free_principal", obj[o].ctx, <<o>>, 0),
                            ObjMem(o))>>,
               Ok(Unit))

\* impl Drop for KrbData
DropKrbData ==
    LET o == "KrbData"
    IN Dropped(o, <<Freeing(NativeCall("krb5_free_data_contents", obj[o].ctx, <<o>>, 0),
                            ObjMem(o))>>,
               Ok(Unit))

\* --------------------------------------------------------------- lengths
\* A usize or u64 is the pair <<hi, lo>> of its bits from 31 up and its low 31
\* bits: the number hi * 2^31 + lo.
USize(hi, lo) == <<hi, lo>>

\* The largest number a native length field holds: the field is 32-bit signed.
I32_MAX == 2147483647

\* A conversion that keeps the low 32 bits (`as`), the sign bit among them.
TryIntoLength_Wrapping(len) ==
    Some(IF len[1] % 2 = 1 THEN (len[2] - I32_MAX) - 1 ELSE len[2])

\* usize -> the type of a native length field, by try_into: None when the
\* number does not fit.
TryIntoLength(len) == IF len[1] = 0 /\ len[2] <= I32_MAX THEN Some(len[2]) ELSE None

\* The type of a native length field -> usize, by try_into: None when the
\* number does not fit.
TryIntoUsize(n) == IF n >= 0 THEN Some(USize(0, n)) ELSE None

\* The lengths of the passwords and keyblocks callers ask for, and the values
\* the library leaves in a keyblock's length field
PasswordLens == {USize(0, 8), USize(0, I32_MAX), USize(1, 0), USize(2, 8)}
KeyblockLens == {USize(0, 0), USize(0, 32)}
FieldValues == {-1, 0, 32}

\* --------------------------------------------------------------- Keyblock
\* Keyblock::contents_mut on a keyblock whose length field holds n: the
\* length of the view, or the error.
contents_mut(n) ==
    IF n > 0
    THEN IF TryIntoUsize(n) # None
         THEN Ok(TryIntoUsize(n)[1])
         ELSE StringTooLong("keyblock")
    ELSE Ok(USize(0, 0))

\* impl Drop for Keyblock: the native call
free_keyblock(c, o) ==
    Freeing(NativeCall("krb5_free_keyblock", c, <<o>>, 0), ObjMem(o))

\* Keyblock::new(ctx, enctype, len) into slot o, krb5_init_keyblock returning
\* `code` and leaving n in the length field: what it returns and the native
\* calls it makes, the drop of the keyblock on the error path among them.
KeyblockNew(c, o, len, code, n) ==
    LET init == Making(WithArg(NativeCall("krb5_init_keyblock", c, <<>>, code), len),
                       ObjMem(o))
        checked == from_call_result(Some(c), code)
        contents == contents_mut(n)
    IN IF checked.result # Ok(Unit)
       THEN [result |-> checked.result, ncalls |-> <<init>> \o checked.ncalls]
       ELSE IF contents.kind # "Ok"
       THEN [result |-> contents, ncalls |-> <<init, free_keyblock(c, o)>>]
       ELSE [result |-> Ok(Unit), ncalls |-> <<init>>]

\* Keyblock::new
new(c) ==
    /\ kctx[c] = "live"
    /\ FreeSlot("Keyblock")
    /\ \E len \in KeyblockLens, code \in Codes, n \in FieldValues :
           LET o == "Keyblock"
               kb == KeyblockNew(c, o, len, code, n)
           IN Constructed(Op("Keyblock::new", <<c, len>>),
                  o, Wrapper(o, c, "none", 0), kb.ncalls, kb.result)

\* A from_password that drops nothing when it fails after the keyblock was
\* allocated.
from_password_Leaks(c) ==
    /\ kctx[c] = "live"
    /\ obj["KrbData"].kind = "KrbData"
    /\ FreeSlot("Keyblock")
    /\ \E password \in PasswordLens, code \in Codes, n \in FieldValues,
          code2 \in Codes :
           LET o == "Keyblock"
               salt == "KrbData"
               kb == KeyblockNew(c, o, USize(0, 0), code, n)
               length == TryIntoLength(password)
               checked == from_call_result(Some(c), code2)
           IN IF kb.result # Ok(Unit)
              THEN Constructed(Op("Keyblock::from_password", <<c, password>>),
                       o, NoObj, kb.ncalls, kb.result)
              ELSE IF length = None
              THEN Constructed(Op("Keyblock::from_password", <<c, password>>),
                       o, NoObj, kb.ncalls, StringTooLong("password"))
              ELSE Constructed(Op("Keyblock::from_password", <<c, password>>),
                       o, Wrapper(o, c, "none", 0),
                       kb.ncalls
                         \o <<WithArg(NativeCall("krb5_c_string_to_key", c,
                                                 <<salt, o>>, code2), length[1])>>
                         \o checked.ncalls,
                       checked.result)

\* Keyblock::from_password(ctx, enctype, password, salt): the salt is any
\* live KrbData.
from_password(c) ==
    /\ kctx[c] = "live"
    /\ obj["KrbData"].kind = "KrbData"
    /\ FreeSlot("Keyblock")
    /\ \E password \in PasswordLens, code \in Codes, n \in FieldValues,
          code2 \in Codes :
           LET o == "Keyblock"
               salt == "KrbData"
               kb == KeyblockNew(c, o, USize(0, 0), code, n)
               length == TryIntoLength(password)
               checked == from_call_result(Some(c), code2)
           IN IF kb.result # Ok(Unit)
              THEN Constructed(Op("Keyblock::from_password", <<c, password>>),
                       o, NoObj, kb.ncalls, kb.result)
              ELSE IF length = None
              THEN Constructed(Op("Keyblock::from_password", <<c, password>>),
                       o, NoObj, kb.ncalls \o <<free_keyblock(c, o)>>,
                       StringTooLong("password"))
              ELSE Constructed(Op("Keyblock::from_password", <<c, password>>),
                       o, Wrapper(o, c, "none", 0),
                       kb.ncalls
                         \o <<WithArg(NativeCall("krb5_c_string_to_key", c,
                                                 <<salt, o>>, code2), length[1])>>
                         \o checked.ncalls
                         \o (IF checked.result # Ok(Unit)
                             THEN <<free_keyblock(c, o)>> ELSE <<>>),
                       checked.result)

\* Keyblock::contents_mut(&mut self): nothing else borrows the keyblock; the
\* view borrows it.
ContentsMut ==
    /\ obj["Keyblock"].kind = "Keyblock"
    /\ Borrowers("Keyblock") = {}
    /\ FreeSlot("Bytes")
    /\ \E n \in FieldValues :
           LET k == "Keyblock"
               view == contents_mut(n)
           IN Constructed(Op("Keyblock::contents_mut", <<n>>), "Bytes",
                  Wrapper("Bytes", obj[k].ctx, k,
                          IF view.kind = "Ok" THEN view.value[2] ELSE 0),
                  <<>>, IF view.kind = "Ok" THEN Ok(Unit) ELSE view)

\* Keyblock::as_ref(&self): no mutable view of the keyblock is alive; the
\* KeyblockRef borrows the keyblock.
as_ref ==
    /\ obj["Keyblock"].kind = "Keyblock"
    /\ \A v \in Borrowers("Keyblock") : obj[v].kind # "Bytes"
    /\ FreeSlot("KeyblockRef")
    /\ LET k == "Keyblock"
       IN Constructed(Op("Keyblock::as_ref", <<>>),
              "KeyblockRef", Wrapper("KeyblockRef", obj[k].ctx, k, 0), <<>>,
              Ok(Unit))

\* A borrowed view goes out of scope: views own nothing.
EndBorrow(v) ==
    /\ obj[v].kind \in ViewKinds
    /\ obj' = [obj EXCEPT ![v] = NoObj]
    /\ op' = Op("drop", <<v>>)
    /\ ncalls' = <<>>
    /\ outcome' = Ok(Unit)
    /\ UNCHANGED <<kctx, vars, nvars, pvars>>

\* impl Drop for Keyblock
DropKeyblock ==
    LET o == "Keyblock"
    IN Dropped(o, <<free_keyblock(obj[o].ctx, o)>>, Ok(Unit))

\* ----------------------------------------------------------------- Keytab
\* Keytab::resolve
resolve(c) ==
    /\ kctx[c] = "live"
    /\ FreeSlot("Keytab")
    /\ \E code \in Codes :
           LET o == "Keytab"
               checked == from_call_result(Some(c), code)
           IN Constructed(Op("Keytab::resolve", <<c>>), o, Wrapper(o, c, "none", 0),
                  <<Making(NativeCall("krb5_kt_resolve", c, <<>>, code), ObjMem(o))>>
                      \o checked.ncalls,
                  checked.result)

\* Keytab::add(&mut self, principal, kvno, keyblock): the principal is any
\* live Principal, the keyblock any live KeyblockRef (a KeyDataRef holds one).
add(keyblock) ==
    /\ obj["Keytab"].kind = "Keytab"
    /\ obj["Principal"].kind = "Principal"
    /\ obj[keyblock].kind \in {"KeyblockRef", "KeyDataRef"}
    /\ \E code \in Codes :
        LET kt == "Keytab"
            principal == "Principal"
            c == obj[kt].ctx
            checked == from_call_result(Some(c), code)
        IN Called(Op("Keytab::add", <<keyblock>>),
               <<NativeCall("krb5_kt_add_entry", c, <<kt, principal, keyblock>>,
                               code)>> \o checked.ncalls,
                  checked.result)

\* A Keytab whose drop ignores the status of krb5_kt_close.
DropKeytab_Ignores ==
    \E code \in Codes :
        LET o == "Keytab"
        IN Dropped(o, <<Freeing(NativeCall("krb5_kt_close", obj[o].ctx, <<o>>, code),
                                ObjMem(o))>>,
                   Ok(Unit))

\* impl Drop for Keytab: from_call_result(..).unwrap()
DropKeytab ==
    \E code \in Codes :
        LET o == "Keytab"
            checked == from_call_result(Some(obj[o].ctx), code)
        IN Dropped(o,
               <<Freeing(NativeCall("krb5_kt_close", obj[o].ctx, <<o>>, code),
                         ObjMem(o))>> \o checked.ncalls,
               IF checked.result = Ok(Unit)
               THEN Ok(Unit)
               ELSE Panic("called Result::unwrap() on an Err value"))

\* ===================================================== rust/krb5: kadm5.rs
\* kadm5::Error { code }
Kadm5Error(code) == [kind |-> "kadm5", code |-> code]
KADM5_OK == 0
\* A from_ret that takes every status for success.
from_ret_Swallows(code) == Ok(Unit)

\* Error::from_ret
from_ret(code) == IF code = KADM5_OK THEN Ok(Unit) ELSE Kadm5Error(code)

\* ServerHandle::new
ServerHandleNew(c) ==
    /\ kctx[c] = "live"
    /\ FreeSlot("ServerHandle")
    /\ \E code \in Codes :
           LET o == "ServerHandle"
           IN Constructed(Op("ServerHandle::new", <<c>>), o, Wrapper(o, c, "none", 0),
                  <<Making(NativeCall("kadm5_init_with_skey", c, <<>>, code),
                           ObjMem(o))>>,
                  from_ret(code))

\* ServerHandle::create_principal(&self, principal): the principal is any
\* live Principal.
create_principal ==
    /\ obj["ServerHandle"].kind = "ServerHandle"
    /\ obj["Principal"].kind = "Principal"
    /\ \E code \in Codes :
        Called(Op("ServerHandle::create_principal", <<>>),
            <<NativeCall("kadm5_create_principal", 0,
                            <<"ServerHandle", "Principal">>, code)>>,
               from_ret(code))

\* The key counts kadm5_get_principal_keys reports
KeyCounts == {-1, 0, 2}

\* ServerHandle::get_principal_keys(&self, principal, kvno): the KeyDataVec
\* borrows the ServerHandle (the elided lifetime is that of &self).
get_principal_keys ==
    /\ obj["ServerHandle"].kind = "ServerHandle"
    /\ obj["Principal"].kind = "Principal"
    /\ FreeSlot("KeyDataVec")
    /\ \E code \in Codes, key_count \in KeyCounts :
           LET sh == "ServerHandle"
               o == "KeyDataVec"
           IN Constructed(Op("ServerHandle::get_principal_keys", <<>>),
                  o, Wrapper(o, obj[sh].ctx, sh, key_count),
                  <<Making(NativeCall("kadm5_get_principal_keys", 0,
                                      <<sh, "Principal">>, code), ObjMem(o))>>,
                  from_ret(code))

\* impl Drop for ServerHandle: from_ret(..).expect(..)
DropServerHandle ==
    \E code \in Codes :
        Dropped("ServerHandle",
            <<Freeing(NativeCall("kadm5_destroy", 0, <<"ServerHandle">>, code),
                      ObjMem("ServerHandle"))>>,
            IF from_ret(code) = Ok(Unit)
            THEN Ok(Unit)
            ELSE Panic("failed to destroy kadmin5 server handle"))

\* KeyDataVec::keys, up to the first item of the iterator: as_slice panics on
\* a negative key_count; an empty collection yields nothing; a KeyDataRef
\* borrows the collection.
keys ==
    LET kv == "KeyDataVec"
    IN /\ obj[kv].kind = "KeyDataVec"
       /\ IF TryIntoUsize(obj[kv].count) = None
          THEN Called(Op("KeyDataVec::keys", <<>>),
                   <<>>, Panic("keydata vec must have a non-negative number of keys"))
          ELSE IF obj[kv].count = 0
          THEN Called(Op("KeyDataVec::keys", <<>>), <<>>, Ok(Unit))
          ELSE /\ FreeSlot("KeyDataRef")
               /\ Constructed(Op("KeyDataVec::keys", <<>>),
                      "KeyDataRef", Wrapper("KeyDataRef", obj[kv].ctx, kv, 0),
                      <<>>, Ok(Unit))

\* impl Drop for KeyDataVec: from_ret(..).expect(..)
DropKeyDataVec ==
    \E code \in Codes :
        LET o == "KeyDataVec"
        IN Dropped(o,
            <<Freeing(WithArg(NativeCall("kadm5_free_kadm5_key_data", obj[o].ctx, <<o>>,
                                         code), obj[o].count), ObjMem(o))>>,
            IF from_ret(code) = Ok(Unit)
            THEN Ok(Unit)
            ELSE Panic("failed to destroy keydata vector"))

\* ------------------------------------------------- the wrappers' behaviour
NextKrb5 ==
    \/ \E c \in Ctxs : KrbContextNew(c)
    \/ \E c \in Ctxs : DropKrbContext(c)
    \/ \E c \in Ctxs : parse_principal_name(c)
    \/ \E c \in Ctxs : default_realm(c)
    \/ DropDefaultRealm
    \/ default_salt
    \/ unparse
    \/ Display
    \/ DropPrincipal
    \/ DropKrbData
    \/ \E c \in Ctxs : new(c)
    \/ \E c \in Ctxs : from_password(c)
    \/ ContentsMut
    \/ as_ref
    \/ \E v \in ViewKinds : EndBorrow(v)
    \/ DropKeyblock
    \/ \E c \in Ctxs : resolve(c)
    \/ \E keyblock \in ViewKinds : add(keyblock)
    \/ DropKeytab
    \/ \E c \in Ctxs : ServerHandleNew(c)
    \/ create_principal
    \/ get_principal_keys
    \/ DropServerHandle
    \/ keys
    \/ DropKeyDataVec

\* The wrappers alone: the credential cache stays as it starts.
InitKrb5 == Init /\ ~store.exists

SpecKrb5 == InitKrb5 /\ [][NextKrb5]_allvars

\* ================================== the wrappers over the native data
\* One KrbContext, and what its wrappers' operations do to the data of the
\* library and of the administration service.
Realms == {"A.ORG", "B.ORG"}
Names == {"alice"}

\* The text of a principal is its tokens: a name, or a name, "@" and a realm.
PrincipalTexts == {<<n>> : n \in Names} \cup {<<n, "@", r>> : n \in Names, r \in Realms}

\* A principal of the library: its name and its realm
Princ(name, realm) == [name |-> name, realm |-> realm]

\* The wrapper operation `called` made the native calls `made` and returned
\* `result`; the wrappers' lifetimes are not followed here.
Returns(called, made, result) ==
    /\ op' = called
    /\ ncalls' = made
    /\ outcome' = result
    /\ UNCHANGED <<kctx, obj, vars, pvars>>

\* KrbContext::from_profile(profile): the profile names the default realm.
from_profile(realm) ==
    /\ config = None
    /\ \E code \in Codes :
        LET checked == from_call_result(None, code)
        IN /\ config' = IF code = 0 THEN Some(realm) ELSE None
           /\ Returns(Op("KrbContext::from_profile", <<realm>>),
                      <<NativeCall("krb5_init_context_profile", 0, <<>>, code)>>
                          \o checked.ncalls,
                      checked.result)
    /\ UNCHANGED <<parsed, service, session, salt_data, key_block, key_table, derived>>

\* krb5_parse_name(context, name, &principal): a name without a realm is in
\* the default realm of the context.
krb5_parse_name(text) ==
    Princ(text[1], IF Len(text) = 3 THEN text[3] ELSE config[1])

\* KrbContext::parse_principal_name(princ_name)
ParsePrincipalName(princ_name) ==
    /\ config # None
    /\ parsed = None
    /\ \E code \in Codes :
        LET checked == from_call_result(None, code)
        IN /\ parsed' = IF code = 0 THEN Some(krb5_parse_name(princ_name)) ELSE None
           /\ Returns(Op("KrbContext::parse_principal_name", <<princ_name>>),
                      <<WithArg(NativeCall("krb5_parse_name", 1, <<>>, code),
                                princ_name)>> \o checked.ncalls,
                      checked.result)
    /\ UNCHANGED <<config, service, session, salt_data, key_block, key_table, derived>>

\* ----------------------------------------------- the administration service
\* error_code::DUP, the status KADM5_DUP of the library: a status that is
\* neither KADM5_OK nor the failure of the transport in Codes.
DUP == 2

\* The field masks of a principal entry: KADM5_PRINCIPAL, the identity, and
\* one of the optional attributes.
KADM5_PRINCIPAL == "KADM5_PRINCIPAL"
KADM5_ATTRIBUTES == "KADM5_ATTRIBUTES"

\* std::mem::zeroed::<_kadm5_principal_ent_t>() with its principal set
PrincipalEnt(p) == [principal |-> p, attributes |-> 0]

\* What the service keeps of an entry created with a mask
Stored(ent, mask) ==
    [principal |-> ent.principal,
     attributes |-> IF KADM5_ATTRIBUTES \in mask THEN Some(ent.attributes) ELSE None]

\* kadm5_create_principal(handle, ent, mask, NULL): the answers the service
\* can give and the principals it holds after each: the request does not
\* arrive, or the principal exists already, or it is created with the fields
\* the mask names.
kadm5_create_principal(svc, ent, mask) ==
    {[status |-> 1, service |-> svc]}
    \cup IF \E e \in svc : e.principal = ent.principal
         THEN {[status |-> DUP, service |-> svc]}
         ELSE {[status |-> KADM5_OK, service |-> svc \cup {Stored(ent, mask)}]}

\* ServerHandle::new: the session exists when the handshake succeeded.
Authenticate ==
    /\ config # None
    /\ ~session
    /\ \E code \in Codes :
        /\ session' = (from_ret(code) = Ok(Unit))
        /\ Returns(Op("ServerHandle::new", <<>>),
                   <<NativeCall("kadm5_init_with_skey", 1, <<>>, code)>>,
                   from_ret(code))
    /\ UNCHANGED <<config, parsed, service, salt_data, key_block, key_table, derived>>

\* A create_principal that asks for the entry's attributes too.
CreatePrincipal_WithAttributes ==
    /\ session
    /\ parsed # None
    /\ LET ent == PrincipalEnt(parsed[1])
           mask == {KADM5_PRINCIPAL, KADM5_ATTRIBUTES}
       IN \E answer \in kadm5_create_principal(service, ent, mask) :
            /\ service' = answer.service
            /\ Returns(Op("ServerHandle::create_principal", <<parsed[1]>>),
                       <<WithArg(NativeCall("kadm5_create_principal", 0, <<>>,
                                            answer.status),
                                 [ent |-> ent, mask |-> mask])>>,
                       from_ret(answer.status))
    /\ UNCHANGED <<config, parsed, session, salt_data, key_block, key_table, derived>>

\* ServerHandle::create_principal(&self, principal)
CreatePrincipal ==
    /\ session
    /\ parsed # None
    /\ LET ent == PrincipalEnt(parsed[1])
           mask == {KADM5_PRINCIPAL}
       IN \E answer \in kadm5_create_principal(service, ent, mask) :
            /\ service' = answer.service
            /\ Returns(Op("ServerHandle::create_principal", <<parsed[1]>>),
                       <<WithArg(NativeCall("kadm5_create_principal", 0, <<>>,
                                            answer.status),
                                 [ent |-> ent, mask |-> mask])>>,
                       from_ret(answer.status))
    /\ UNCHANGED <<config, parsed, session, salt_data, key_block, key_table, derived>>

\* ------------------------------------------------------------ key material
\* enctype::AES256_CTS_HMAC_SHA1_96
Enctypes == {"AES256_CTS_HMAC_SHA1_96"}

\* The lengths asked of Keyblock::new: those of KeyblockLens, and 2^32 + 32,
\* which no 32-bit field holds
NewLens == KeyblockLens \cup {USize(2, 32)}

\* A size_t stored into a 32-bit signed length field: its low 32 bits, read
\* as a two's complement number.
LowBits(len) == IF len[1] % 2 = 1 THEN (len[2] - I32_MAX) - 1 ELSE len[2]

\* krb5_init_keyblock(context, enctype, length, &out): the keyblock it
\* allocates. Its length field holds the length; its contents are a buffer of
\* that many bytes, which it does not initialise, or NULL for the length 0.
krb5_init_keyblock(enctype, len) ==
    [enctype |-> enctype,
     length |-> LowBits(len),
     contents |-> IF len = USize(0, 0) THEN "NULL" ELSE "buffer",
     allocated |-> len,
     bytes |-> "uninitialised"]

\* The slice Keyblock::contents_mut builds over a keyblock:
\* slice::from_raw_parts_mut(raw.contents, raw.length) when the length field
\* is positive, the empty slice literal, which points into no buffer,
\* otherwise.
View(raw) ==
    IF raw.length > 0
    THEN [ptr |-> raw.contents, len |-> contents_mut(raw.length).value,
          bytes |-> raw.bytes]
    ELSE [ptr |-> "dangling", len |-> USize(0, 0), bytes |-> <<>>]

\* contents_mut()?.fill(0): every byte of the view becomes zero.
Fill0(raw) == IF raw.length > 0 THEN [raw EXCEPT !.bytes = "zero"] ELSE raw

\* Keyblock::new(ctx, enctype, len)
NewKeyblock(enctype, len) ==
    /\ config # None
    /\ key_block = None
    /\ \E code \in Codes :
        LET raw == krb5_init_keyblock(enctype, len)
            kb == KeyblockNew(1, "Keyblock", len, code, raw.length)
        IN /\ key_block' = IF kb.result = Ok(Unit) THEN Some(Fill0(raw)) ELSE None
           /\ Returns(Op("Keyblock::new", <<len>>), kb.ncalls, kb.result)
    /\ UNCHANGED <<config, parsed, service, session, salt_data, key_table, derived>>

\* impl Drop for Keyblock
FreeKeyblock ==
    /\ key_block # None
    /\ key_block' = None
    /\ Returns(Op("drop", <<"Keyblock">>), <<free_keyblock(1, "Keyblock")>>, Ok(Unit))
    /\ UNCHANGED <<config, parsed, service, session, salt_data, key_table, derived>>

\* The flags of krb5_unparse_name_flags
KRB5_PRINCIPAL_UNPARSE_SHORT == 1
KRB5_PRINCIPAL_UNPARSE_NO_REALM == 2
KRB5_PRINCIPAL_UNPARSE_DISPLAY == 4

\* The bits set in a c_int below 8, and a | b
Bits(n) == {b \in {1, 2, 4} : (n \div b) % 2 = 1}
SumOf(bits) == (IF 1 \in bits THEN 1 ELSE 0) + (IF 2 \in bits THEN 2 ELSE 0)
               + (IF 4 \in bits THEN 4 ELSE 0)
BitOr(a, b) == SumOf(Bits(a) \cup Bits(b))

\* PrincipalUnparseOptions { realm, for_display }
RealmDisplayModes == {"Always", "IfForeign", "Never"}
UnparseOptions == [realm : RealmDisplayModes, for_display : BOOLEAN]

\* A to_flags that takes IfForeign for Never and Never for IfForeign.
to_flags_Swapped(options) ==
    LET realm == CASE options.realm = "Always" -> 0
                   [] options.realm = "IfForeign" -> KRB5_PRINCIPAL_UNPARSE_NO_REALM
                   [] options.realm = "Never" -> KRB5_PRINCIPAL_UNPARSE_SHORT
        for_display == IF options.for_display THEN KRB5_PRINCIPAL_UNPARSE_DISPLAY ELSE 0
    IN BitOr(realm, for_display)

\* PrincipalUnparseOptions::to_flags
to_flags(options) ==
    LET realm == CASE options.realm = "Always" -> 0
                   [] options.realm = "IfForeign" -> KRB5_PRINCIPAL_UNPARSE_SHORT
                   [] options.realm = "Never" -> KRB5_PRINCIPAL_UNPARSE_NO_REALM
        for_display == IF options.for_display THEN KRB5_PRINCIPAL_UNPARSE_DISPLAY ELSE 0
    IN BitOr(realm, for_display)

\* krb5_unparse_name_flags(context, principal, flags, &name): the text it
\* writes. The realm is left out under NO_REALM, and under SHORT when it is
\* the default realm of the context. The names here hold no character that
\* DISPLAY would leave unquoted.
krb5_unparse_name_flags(p, flags) ==
    IF \/ KRB5_PRINCIPAL_UNPARSE_NO_REALM \in Bits(flags)
       \/ KRB5_PRINCIPAL_UNPARSE_SHORT \in Bits(flags) /\ p.realm = config[1]
    THEN <<p.name>>
    ELSE <<p.name, "@", p.realm>>

\* Principal::unparse(options)
UnparseName(options) ==
    /\ parsed # None
    /\ \E code \in Codes :
        LET checked == from_call_result(Some(1), code)
            flags == to_flags(options)
            called == NativeCall("krb5_unparse_name_flags", 1, <<>>, code)
            raw_name == CString(krb5_unparse_name_flags(parsed[1], flags), TRUE)
        IN IF checked.result = Ok(Unit)
           THEN Returns(Op("Principal::unparse", <<options>>),
                        <<Making(WithArg(called, flags), NameMem),
                          Freeing(NativeCall("krb5_free_unparsed_name", 1, <<>>, 0),
                                  NameMem)>>,
                        Ok(to_string_lossy(raw_name)))
           ELSE Returns(Op("Principal::unparse", <<options>>),
                        <<WithArg(called, flags)>> \o checked.ncalls,
                        checked.result)
    /\ UNCHANGED nvars

\* impl Drop for Principal
FreePrincipal ==
    /\ parsed # None
    /\ parsed' = None
    /\ Returns(Op("drop", <<"Principal">>),
               <<Freeing(NativeCall("krb5_free_principal", 1, <<>>, 0),
                         ObjMem("Principal"))>>,
               Ok(Unit))
    /\ UNCHANGED <<config, service, session, salt_data, key_block, key_table, derived>>

\* krb5_principal2salt(context, principal, &salt): the realm and then the
\* name of the principal.
krb5_principal2salt(p) == <<p.realm, p.name>>

\* Principal::default_salt
DefaultSalt ==
    /\ parsed # None
    /\ salt_data = None
    /\ \E code \in Codes :
        LET checked == from_call_result(Some(1), code)
        IN /\ salt_data' = IF code = 0 THEN Some(krb5_principal2salt(parsed[1]))
                           ELSE None
           /\ Returns(Op("Principal::default_salt", <<>>),
                      <<WithArg(NativeCall("krb5_principal2salt", 1, <<>>, code),
                                parsed[1])>> \o checked.ncalls,
                      checked.result)
    /\ UNCHANGED <<config, parsed, service, session, key_block, key_table, derived>>

\* impl Drop for KrbData
FreeSalt ==
    /\ salt_data # None
    /\ salt_data' = None
    /\ Returns(Op("drop", <<"KrbData">>),
               <<Freeing(NativeCall("krb5_free_data_contents", 1, <<>>, 0),
                         ObjMem("KrbData"))>>,
               Ok(Unit))
    /\ UNCHANGED <<config, parsed, service, session, key_block, key_table, derived>>

\* The passwords of the callers: their bytes and how many they are
Passwords == {[bytes |-> "hunter2", len |-> USize(0, 7)],
              [bytes |-> "correct horse", len |-> USize(0, 13)]}

\* The length of the key of an algorithm
KeyLength(enctype) == 32

\* krb5_c_string_to_key(context, enctype, &string, &salt, key): the keyblock
\* it leaves in `key`, whose contents it allocates: a key of the algorithm,
\* made from the first string.length bytes of string.data and from the salt.
krb5_c_string_to_key(enctype, string, string_salt, raw) ==
    [raw EXCEPT !.length = KeyLength(enctype),
                !.contents = "buffer",
                !.allocated = USize(0, KeyLength(enctype)),
                !.bytes = [s2k |-> enctype, string |-> string, salt |-> string_salt]]

\* One derivation: what the key was asked from, and the view of the key
Derivation(enctype, password, string_salt, raw) ==
    [enctype |-> enctype, password |-> password, salt |-> string_salt,
     contents |-> View(raw)]

\* A from_password that takes the default salt of the Principal the caller
\* holds for the salt it was given.
FromPassword_SaltOfPrincipal(enctype, password) ==
    /\ config # None
    /\ salt_data # None
    /\ key_block = None
    /\ Len(derived) < MaxDerivations
    /\ \E code \in Codes, code2 \in Codes :
        LET raw == krb5_init_keyblock(enctype, USize(0, 0))
            kb == KeyblockNew(1, "Keyblock", USize(0, 0), code, raw.length)
            length == TryIntoLength(password.len)
            checked == from_call_result(Some(1), code2)
            password_data == [length |-> length[1], data |-> password.bytes]
            used == IF parsed # None THEN krb5_principal2salt(parsed[1])
                    ELSE salt_data[1]
            made == krb5_c_string_to_key(enctype, password_data, used, Fill0(raw))
            called == Op("Keyblock::from_password", <<password, salt_data[1]>>)
        IN IF kb.result # Ok(Unit)
           THEN /\ Returns(called, kb.ncalls, kb.result)
                /\ UNCHANGED <<key_block, derived>>
           ELSE IF length = None
           THEN /\ Returns(called, kb.ncalls \o <<free_keyblock(1, "Keyblock")>>,
                           StringTooLong("password"))
                /\ UNCHANGED <<key_block, derived>>
           ELSE /\ Returns(called,
                           kb.ncalls
                             \o <<WithArg(NativeCall("krb5_c_string_to_key", 1, <<>>,
                                                     code2), password_data)>>
                             \o checked.ncalls
                             \o (IF checked.result # Ok(Unit)
                                 THEN <<free_keyblock(1, "Keyblock")>> ELSE <<>>),
                           checked.result)
                /\ IF checked.result = Ok(Unit)
                   THEN /\ key_block' = Some(made)
                        /\ derived' = Append(derived,
                               Derivation(enctype, password, salt_data[1], made))
                   ELSE UNCHANGED <<key_block, derived>>
    /\ UNCHANGED <<config, parsed, service, session, salt_data, key_table>>

\* Keyblock::from_password(ctx, enctype, password, salt)
FromPassword(enctype, password) ==
    /\ config # None
    /\ salt_data # None
    /\ key_block = None
    /\ Len(derived) < MaxDerivations
    /\ \E code \in Codes, code2 \in Codes :
        LET raw == krb5_init_keyblock(enctype, USize(0, 0))
            kb == KeyblockNew(1, "Keyblock", USize(0, 0), code, raw.length)
            length == TryIntoLength(password.len)
            checked == from_call_result(Some(1), code2)
            password_data == [length |-> length[1], data |-> password.bytes]
            made == krb5_c_string_to_key(enctype, password_data, salt_data[1],
                                         Fill0(raw))
            called == Op("Keyblock::from_password", <<password, salt_data[1]>>)
        IN IF kb.result # Ok(Unit)
           THEN /\ Returns(called, kb.ncalls, kb.result)
                /\ UNCHANGED <<key_block, derived>>
           ELSE IF length = None
           THEN /\ Returns(called, kb.ncalls \o <<free_keyblock(1, "Keyblock")>>,
                           StringTooLong("password"))
                /\ UNCHANGED <<key_block, derived>>
           ELSE /\ Returns(called,
                           kb.ncalls
                             \o <<WithArg(NativeCall("krb5_c_string_to_key", 1, <<>>,
                                                     code2), password_data)>>
                             \o checked.ncalls
                             \o (IF checked.result # Ok(Unit)
                                 THEN <<free_keyblock(1, "Keyblock")>> ELSE <<>>),
                           checked.result)
                /\ IF checked.result = Ok(Unit)
                   THEN /\ key_block' = Some(made)
                        /\ derived' = Append(derived,
                               Derivation(enctype, password, salt_data[1], made))
                   ELSE UNCHANGED <<key_block, derived>>
    /\ UNCHANGED <<config, parsed, service, session, salt_data, key_table>>

\* The caller writes through the view of contents_mut: every byte of the view
\* becomes 0xAA.
WriteContents ==
    /\ key_block # None
    /\ key_block' = Some(IF key_block[1].length > 0
                         THEN [key_block[1] EXCEPT !.bytes = "0xAA"]
                         ELSE key_block[1])
    /\ Returns(Op("Keyblock::contents_mut", <<>>), <<>>,
               Ok(View(key_block[1]).len))
    /\ UNCHANGED <<config, parsed, service, session, salt_data, key_table, derived>>

\* ------------------------------------------------------------------ keytab
\* The key version numbers callers use
Kvnos == {1, 2}

\* Keytab::resolve(ctx, name): the keytab of that name, as it is
ResolveKeytab ==
    /\ config # None
    /\ ~key_table.open
    /\ \E code \in Codes :
        LET checked == from_call_result(Some(1), code)
        IN /\ key_table' = [key_table EXCEPT !.open = (code = 0)]
           /\ Returns(Op("Keytab::resolve", <<>>),
                      <<Making(NativeCall("krb5_kt_resolve", 1, <<>>, code),
                               ObjMem("Keytab"))>> \o checked.ncalls,
                      checked.result)
    /\ UNCHANGED <<config, parsed, service, session, salt_data, key_block, derived>>

\* krb5_kt_add_entry(context, keytab, &entry): the entries after it
\* succeeded. It copies what it keeps: the principal, the kvno, and the
\* bytes the key's length field counts.
krb5_kt_add_entry(entries, entry) ==
    Append(entries, [principal |-> entry.principal, vno |-> entry.vno,
                     enctype |-> entry.key.enctype,
                     contents |-> [len |-> View(entry.key).len,
                                   bytes |-> View(entry.key).bytes]])

\* A Keytab::add that releases the contents of its entry after the call.
KeytabAdd_ReleasesEntry(kvno) ==
    /\ key_table.open
    /\ parsed # None
    /\ key_block # None
    /\ Len(key_table.entries) < MaxEntries
    /\ \E code \in Codes :
        LET checked == from_call_result(Some(1), code)
            entry == [principal |-> parsed[1], vno |-> kvno, key |-> key_block[1]]
        IN /\ key_table' = IF code = 0
                           THEN [key_table EXCEPT
                                   !.entries = krb5_kt_add_entry(@, entry)]
                           ELSE key_table
           /\ Returns(Op("Keytab::add", <<kvno>>),
                      <<WithArg(NativeCall("krb5_kt_add_entry", 1, <<>>, code), entry)>>
                          \o checked.ncalls
                          \o <<Freeing(NativeCall("krb5_free_keytab_entry_contents",
                                                  1, <<>>, 0), ObjMem("Keyblock"))>>,
                      checked.result)
    /\ UNCHANGED <<config, parsed, service, session, salt_data, key_block, derived>>

\* Keytab::add(&mut self, principal, kvno, keyblock). The entry it builds is
\* zeroed, then gets the principal's handle, the kvno, and a copy of the
\* krb5_keyblock struct, whose contents pointer is the keyblock's own.
KeytabAdd(kvno) ==
    /\ key_table.open
    /\ parsed # None
    /\ key_block # None
    /\ Len(key_table.entries) < MaxEntries
    /\ \E code \in Codes :
        LET checked == from_call_result(Some(1), code)
            entry == [principal |-> parsed[1], vno |-> kvno, key |-> key_block[1]]
        IN /\ key_table' = IF code = 0
                           THEN [key_table EXCEPT
                                   !.entries = krb5_kt_add_entry(@, entry)]
                           ELSE key_table
           /\ Returns(Op("Keytab::add", <<kvno>>),
                      <<WithArg(NativeCall("krb5_kt_add_entry", 1, <<>>, code), entry)>>
                          \o checked.ncalls,
                      checked.result)
    /\ UNCHANGED <<config, parsed, service, session, salt_data, key_block, derived>>

\* impl Drop for Keytab: the keytab keeps its entries.
CloseKeytab ==
    /\ key_table.open
    /\ \E code \in Codes :
        LET checked == from_call_result(Some(1), code)
        IN /\ key_table' = [key_table EXCEPT !.open = FALSE]
           /\ Returns(Op("drop", <<"Keytab">>),
                      <<Freeing(NativeCall("krb5_kt_close", 1, <<>>, code),
                                ObjMem("Keytab"))>> \o checked.ncalls,
                      IF checked.result = Ok(Unit)
                      THEN Ok(Unit)
                      ELSE Panic("called Result::unwrap() on an Err value"))
    /\ UNCHANGED <<config, parsed, service, session, salt_data, key_block, derived>>

\* --------------------------------------- the wrappers' behaviour on the data
\* Principals and the administration service
NextNative ==
    \/ \E realm \in Realms : from_profile(realm)
    \/ \E princ_name \in PrincipalTexts : ParsePrincipalName(princ_name)
    \/ \E options \in UnparseOptions : UnparseName(options)
    \/ FreePrincipal
    \/ Authenticate
    \/ CreatePrincipal

\* Key material
NextKeys ==
    \/ \E realm \in Realms : from_profile(realm)
    \/ \E princ_name \in PrincipalTexts : ParsePrincipalName(princ_name)
    \/ FreePrincipal
    \/ DefaultSalt
    \/ FreeSalt
    \/ \E enctype \in Enctypes, len \in NewLens : NewKeyblock(enctype, len)
    \/ \E enctype \in Enctypes, password \in Passwords : FromPassword(enctype, password)
    \/ FreeKeyblock

\* The keytab
NextKeytab ==
    \/ \E realm \in Realms : from_profile(realm)
    \/ \E princ_name \in PrincipalTexts : ParsePrincipalName(princ_name)
    \/ FreePrincipal
    \/ \E enctype \in Enctypes, len \in NewLens : NewKeyblock(enctype, len)
    \/ WriteContents
    \/ FreeKeyblock
    \/ ResolveKeytab
    \/ \E kvno \in Kvnos : KeytabAdd(kvno)
    \/ CloseKeytab

\* The data behind the wrappers of one context; the credential cache stays as
\* it starts.
SpecNative == InitKrb5 /\ [][NextNative]_allvars
SpecKeys == InitKrb5 /\ [][NextKeys]_allvars
SpecKeytab == InitKrb5 /\ [][NextKeytab]_allvars

\* ========================================================= volume service
\* What get_secret_data returns: the files of the selected secret, each a
\* relative path and bytes, or an error of the backend with the gRPC code it
\* reports for itself.
GetSecretDataResults ==
    {[kind |-> "Ok", value |-> d] :
        d \in SUBSET {[path |-> "keytab", bytes |-> "secret"],
                      [path |-> "krb5.conf", bytes |-> "secret"]}}
        \cup {[kind |-> "Err", grpc_code |-> c] : c \in {"NotFound", "Unavailable"}}

\* SecretVolumeSelector::deserialize(volume_context): the volume context is
\* the set of its keys; a selector needs the key that names the secret.
deserialize(volume_context) ==
    IF "secret" \in volume_context
    THEN [kind |-> "Ok", value |-> [secret |-> "secret"]]
    ELSE [kind |-> "Err", error |-> "missing field"]

\* impl From<PublishError> for tonic::Status: what the handler returns for
\* a PublishError.
PublishStatus(err, grpc_code) ==
    [kind |-> "Err", error |-> err,
     code |-> CASE err = "InvalidSelector" -> "InvalidArgument"
                [] err = "BackendGetSecretData" -> grpc_code
                [] err \in {"CreateDir", "CreateFile", "WriteFile"} -> "Unavailable"]

\* node_publish_volume up to its first await: the selector is parsed and, if
\* that succeeds, the backend is asked for the secret.
NodePublishVolume(r, target_path, volume_context) ==
    /\ publish[r].pc = "none"
    /\ \A q \in 1..(r - 1) : publish[q].pc # "none"
    /\ LET sel == deserialize(volume_context)
       IN publish' = [publish EXCEPT ![r] =
            IF sel.kind = "Err"
            THEN [@ EXCEPT !.pc = "done", !.target_path = target_path,
                           !.result = PublishStatus("InvalidSelector", "")]
            ELSE [@ EXCEPT !.pc = "get_secret_data", !.target_path = target_path,
                           !.fetches = @ + 1]]
    /\ UNCHANGED <<mounted, vars, kvars, nvars>>

\* A handler that asks the backend again when it answered with an error.
GetSecretDataReturns_Retries(r, answer) ==
    /\ publish[r].pc = "get_secret_data"
    /\ publish' = [publish EXCEPT ![r] =
         IF answer.kind = "Err"
         THEN [@ EXCEPT !.fetches = @ + 1]
         ELSE IF answer.value = {}
         THEN [@ EXCEPT !.pc = "done", !.result = Ok(Unit)]
         ELSE [@ EXCEPT !.pc = "save_secret_data", !.pending = answer.value]]
    /\ UNCHANGED <<mounted, vars, kvars, nvars>>

\* get_secret_data(sel).await returns: on an error the handler returns its
\* status; otherwise save_secret_data starts, and with no file to write the
\* handler returns Ok.
GetSecretDataReturns(r, answer) ==
    /\ publish[r].pc = "get_secret_data"
    /\ publish' = [publish EXCEPT ![r] =
         IF answer.kind = "Err"
         THEN [@ EXCEPT !.pc = "done",
                        !.result = PublishStatus("BackendGetSecretData",
                                                 answer.grpc_code)]
         ELSE IF answer.value = {}
         THEN [@ EXCEPT !.pc = "done", !.result = Ok(Unit)]
         ELSE [@ EXCEPT !.pc = "save_secret_data", !.pending = answer.value]]
    /\ UNCHANGED <<mounted, vars, kvars, nvars>>

\* One turn of the loop of save_secret_data, for a file of the map in the
\* map's order: create_dir_all, File::create, write_all. `failure` is the
\* call that fails, or "none". File::create leaves the file empty; after the
\* last file the handler returns Ok.
SaveSecretData(r, file, failure) ==
    /\ publish[r].pc = "save_secret_data"
    /\ LET target == publish[r].target_path
           others == {f \in mounted[target] : f.path # file.path}
           written == CASE failure \in {"CreateDir", "CreateFile"} -> mounted[target]
                        [] failure = "WriteFile" ->
                             others \cup {[path |-> file.path, bytes |-> ""]}
                        [] failure = "none" -> others \cup {file}
           rest == publish[r].pending \ {file}
       IN /\ mounted' = [mounted EXCEPT ![target] = written]
          /\ publish' = [publish EXCEPT ![r] =
               [@ EXCEPT !.pending = IF failure = "none" THEN rest ELSE {},
                         !.wrote = IF failure \in {"none", "WriteFile"}
                                   THEN @ \cup {file.path} ELSE @,
                         !.pc = IF failure = "none" /\ rest # {}
                                THEN "save_secret_data" ELSE "done",
                         !.result = IF failure # "none"
                                    THEN PublishStatus(failure, "")
                                    ELSE IF rest = {} THEN Ok(Unit) ELSE @]]
    /\ UNCHANGED <<vars, kvars, nvars>>

\* node_unpublish_volume: remove_dir_all(target_path)
NodeUnpublishVolume(target_path) ==
    /\ mounted[target_path] # {}
    /\ mounted' = [mounted EXCEPT ![target_path] = {}]
    /\ UNCHANGED <<publish, vars, kvars, nvars>>

NextNode ==
    \/ \E r \in 1..MaxRequests, target_path \in TargetPaths,
          volume_context \in {{"secret"}, {}} :
            NodePublishVolume(r, target_path, volume_context)
    \/ \E r \in 1..MaxRequests, answer \in GetSecretDataResults :
            GetSecretDataReturns(r, answer)
    \/ \E r \in 1..MaxRequests, failure \in {"none", "CreateDir", "CreateFile", "WriteFile"} :
            \E file \in publish[r].pending : SaveSecretData(r, file, failure)
    \/ \E target_path \in TargetPaths : NodeUnpublishVolume(target_path)

\* The requests of the node service; the cache and the krb5 wrappers stay as
\* they start.
SpecNode == InitKrb5 /\ [][NextNode]_allvars

\* ------------------------------------------------------------------ claims
\* Task t begins a get_or_insert call in this step.
Begins(t) == calls' = calls + 1 /\ call'[t] # call[t]

\* The errors of the cache for key k
CacheErrors(k) == {SaveToCache(k), SavedKeyNotFound(k)}

Returned(t) == call[t].pc = "returned"

\* C1 as stated: calls for the same key, on separate instances, with
\* idempotent generators return nothing but a generation failure or one
\* common byte value.
C1_AsStated ==
    \A t, u \in Tasks :
        (t # u /\ Returned(t) /\ Returned(u) /\ call[t].key = call[u].key
              /\ call[t].self # call[u].self)
        => \E v \in Values : {call[t].result, call[u].result} \subseteq
                                {GenerateFailed, OkValue(v)}

\* C1 (amended): with idempotent generators, calls for the same key return
\* a generation failure, a cache error (SaveToCache, SavedKeyNotFound) or
\* one common byte value, never two distinct successful values; and a call
\* that ran its generator and succeeded returns the generator's bytes.
C1_IdempotentRace ==
    /\ \A t, u \in Tasks :
        (Returned(t) /\ Returned(u) /\ call[t].key = call[u].key)
        => \E v \in Values : {call[t].result, call[u].result} \subseteq
              {GenerateFailed, OkValue(v)} \cup CacheErrors(call[t].key)
    /\ \A t \in Tasks :
        (Returned(t) /\ call[t].gens > 0 /\ call[t].result.kind = "Ok")
        => call[t].result = OkValue(IdemValue(call[t].key))

\* Two calls on separate instances both missed the same key, both ran the
\* generator and both returned the same bytes.
C1_Witness ==
    \E t, u \in Tasks :
        /\ t # u /\ Returned(t) /\ Returned(u)
        /\ call[t].self # call[u].self /\ call[t].key = call[u].key
        /\ call[t].gens = 1 /\ call[u].gens = 1
        /\ call[t].result.kind = "Ok" /\ call[t].result = call[u].result

\* C2: when the generator fails the call returns that failure, the
\* instance's current_state and the backing record are as they were and no
\* patch was sent; nothing marks the key as failed: the same caller's next
\* call for that key on that instance runs the generator again.
C2_GeneratorFailure ==
    [][\A t \in Tasks :
        /\ call[t].pc = "generating"
           => inst'[call[t].self] = inst[call[t].self]
        /\ (call[t].pc = "generating" /\ call'[t].pc = "returned")
           => /\ call'[t].result = GenerateFailed
              /\ call'[t].sent = <<>>
              /\ inst' = inst /\ store' = store
        /\ (Returned(t) /\ call[t].result = GenerateFailed /\ Begins(t)
              /\ call'[t].self = call[t].self /\ call'[t].key = call[t].key)
           => call'[t].pc = "generating" /\ call'[t].gens = 1
      ]_vars

\* A call whose generator failed has returned the failure.
C2_Witness ==
    \E t \in Tasks :
        /\ Returned(t) /\ call[t].result = GenerateFailed /\ call[t].gens = 1
        /\ call[t].key \notin DOMAIN inst[call[t].self].current_state

\* C3: a call for a key present in the instance's current_state returns the
\* stored bytes without invoking the generator or sending a patch, and
\* leaves current_state and the backing record as they were.
C3_HitIsReadOnly ==
    [][\A t \in Tasks :
        (Begins(t) /\ call'[t].key \in DOMAIN inst[call'[t].self].current_state)
        => /\ call'[t].pc = "returned"
           /\ call'[t].result =
                 OkValue(inst[call'[t].self].current_state[call'[t].key])
           /\ call'[t].gens = 0 /\ call'[t].sent = <<>>
           /\ inst' = inst /\ store' = store
      ]_vars

\* A call returned KEY1, stored under its key, without generating.
C3_Witness ==
    \E t \in Tasks :
        /\ Returned(t) /\ call[t].gens = 0 /\ call[t].sent = <<>>
        /\ call[t].result = OkValue("KEY1")

\* C4: a call that missed, generated v and succeeded has sent exactly one
\* patch, a merge patch whose data is the single pair key -> v, and returns v.
C4_PatchIsTheGeneratedPair ==
    \A t \in Tasks :
        (Returned(t) /\ call[t].gens > 0 /\ call[t].result.kind = "Ok")
        => /\ call[t].value # None
           /\ Len(call[t].sent) = 1
           /\ call[t].sent[1].kind = "Merge"
           /\ call[t].sent[1].data = (call[t].key :> call[t].value[1])
           /\ call[t].result = OkValue(call[t].value[1])

\* The scenario of the specification: svc1 missed, generated as KEY1, one
\* patch {svc1: KEY1} sent, KEY1 returned.
C4_Witness ==
    \E t \in Tasks :
        /\ Returned(t) /\ call[t].gens = 1 /\ call[t].key = "svc1"
        /\ call[t].result = OkValue("KEY1")
        /\ call[t].sent = <<PatchRequest(EmptyData, "svc1", "KEY1")>>

\* C5: after a call whose patch was answered, the instance's current_state
\* is the record the store answered with; when the call succeeded it holds
\* the key with the bytes the call wrote.
C5_LocalStateIsTheResponse ==
    \A t \in Tasks :
        (Returned(t) /\ call[t].response # None)
        => /\ inst[call[t].self].current_state = call[t].response[1]
           /\ call[t].result.kind = "Ok"
              => /\ call[t].key \in DOMAIN inst[call[t].self].current_state
                 /\ inst[call[t].self].current_state[call[t].key] = call[t].value[1]

\* Two instances saved different keys: the later one's current_state also
\* holds the key the other wrote, which it did not have before.
C5_Witness ==
    \E t, u \in Tasks :
        /\ t # u /\ Returned(t) /\ Returned(u)
        /\ call[t].self # call[u].self /\ call[t].key # call[u].key
        /\ call[t].result.kind = "Ok" /\ call[u].result.kind = "Ok"
        /\ call[t].gens = 1 /\ call[u].gens = 1
        /\ DOMAIN inst[call[u].self].current_state = {call[u].key}
        /\ DOMAIN inst[call[t].self].current_state = {call[t].key, call[u].key}

\* C6 as stated: calls on one instance are not mutually exclusive: while a
\* call on an instance is in its generator phase, another call on that
\* instance can begin.
C6_AsStated ==
    \A i \in Instances :
        ((\E t \in Tasks : call[t].pc = "generating" /\ call[t].self = i)
            /\ calls < MaxCalls)
        => ENABLED (\E u \in Tasks, k \in Keys : GetOrInsert(u, i, k))

\* C6 (amended): get_or_insert takes the instance exclusively (&mut self):
\* no two calls on one instance are in progress, or hold a result, at the
\* same time. The generator phases of calls on different instances can be.
C6_OneCallPerInstance ==
    \A t, u \in Tasks :
        (t # u /\ call[t].pc \in BorrowPhases /\ call[u].pc \in BorrowPhases)
        => call[t].self # call[u].self

\* Two calls, on different instances, are in their generator phases.
C6_Witness ==
    \E t, u \in Tasks :
        /\ call[t].pc = "generating" /\ call[u].pc = "generating"
        /\ call[t].self # call[u].self

\* C7 as stated: once a key holds a value in the backing record, no call
\* runs the generator for it or sends a patch that sets it.
C7_AsStated ==
    [][\A t \in Tasks :
        LET k == call'[t].key
        IN (store.exists /\ k \in DOMAIN store.data)
           => /\ ~(call[t].pc # "generating" /\ call'[t].pc = "generating")
              /\ ~(call[t].pc # "patching" /\ call'[t].pc = "patching")
      ]_vars

\* C7 (amended): with idempotent generators, once a key holds a value in the
\* backing record that value never changes and the key is never removed; an
\* instance whose current_state lacks the key may still run the generator
\* and patch the key, with the same bytes.
C7_ValueNeverChanges ==
    [][\A k \in DOMAIN store.data :
        k \in DOMAIN store'.data /\ store'.data[k] = store.data[k]
      ]_vars

\* One call wrote a key; another instance's call regenerated it and is
\* patching the key, which the record already holds, with the same bytes.
C7_Witness ==
    \E t, u \in Tasks :
        /\ Returned(u) /\ call[u].gens = 1 /\ call[u].result.kind = "Ok"
        /\ call[t].pc = "patching" /\ call[t].key = call[u].key
        /\ call[t].key \in DOMAIN store.data
        /\ store.data[call[t].key] = call[t].value[1]

\* C8: every patch a call sends is a merge patch under the field manager
\* "secrets.stackable.tech/krb5-provision-keytab" whose data names the
\* call's key alone; a step that changes the backing record is the
\* application of such a patch: it removes no key and changes no other key.
C8_MergePatchOfOneKey ==
    [][/\ \A t \in Tasks : \A n \in 1..Len(call'[t].sent) :
            /\ call'[t].sent[n].kind = "Merge"
            /\ call'[t].sent[n].field_manager =
                  "secrets.stackable.tech/krb5-provision-keytab"
            /\ DOMAIN call'[t].sent[n].data = {call'[t].key}
       /\ store' # store
          => \E t \in Tasks :
                /\ call[t].pc = "patching"
                /\ store'.exists = store.exists
                /\ \A j \in DOMAIN store.data :
                      /\ j \in DOMAIN store'.data
                      /\ j # call[t].key => store'.data[j] = store.data[j]
      ]_vars

\* A call has written its key into a record that held another key, and the
\* record holds both.
C8_Witness ==
    \E t \in Tasks :
        /\ Returned(t) /\ call[t].gens = 1 /\ call[t].result.kind = "Ok"
        /\ call[t].key \in DOMAIN store.data
        /\ \E j \in DOMAIN store.data : j # call[t].key

\* C9: a call returns SavedKeyNotFound exactly when its generator succeeded,
\* its patch was answered and the answer does not hold the key; SaveToCache
\* exactly when the generator succeeded and the patch was not answered; the
\* generator's failure exactly when the generator failed. The three results
\* differ.
C9_ThreeOutcomes ==
    \A t \in Tasks :
        Returned(t)
        => LET k == call[t].key
               r == call[t].result
           IN /\ r = SavedKeyNotFound(k)
                 <=> (call[t].value # None /\ call[t].response # None
                         /\ k \notin DOMAIN call[t].response[1])
              /\ r = SaveToCache(k)
                 <=> (call[t].value # None /\ call[t].response = None)
              /\ r = GenerateFailed
                 <=> (call[t].gens > 0 /\ call[t].value = None)
              /\ r.kind \in {"Ok", "GenerateFailed", "SaveToCache", "SavedKeyNotFound"}
              /\ SavedKeyNotFound(k) # SaveToCache(k)
              /\ SavedKeyNotFound(k) # GenerateFailed
              /\ SaveToCache(k) # GenerateFailed

\* The store accepted a patch, answered without the key, and the call
\* returned SavedKeyNotFound.
C9_Witness ==
    \E t \in Tasks :
        /\ Returned(t) /\ call[t].result = SavedKeyNotFound(call[t].key)
        /\ call[t].response # None

\* C10: while a call's generator is suspended the instance's current_state
\* does not change and the call has sent nothing; when the call is aborted
\* there, current_state and the backing record are as they were, and the
\* key is still absent from current_state.
C10_AbortInGenerator ==
    [][\A t \in Tasks :
        call[t].pc = "generating"
        => /\ inst'[call[t].self] = inst[call[t].self]
           /\ call[t].sent = <<>>
           /\ call[t].key \notin DOMAIN inst[call[t].self].current_state
           /\ call'[t].pc = "cancelled"
              => /\ inst' = inst /\ store' = store
                 /\ call'[t].sent = <<>>
      ]_vars

\* A call was aborted while its generator was suspended.
C10_Witness ==
    \E t \in Tasks : call[t].pc = "cancelled" /\ call[t].result.kind = "generating"

\* C11: CredentialCache::new returns GetInitialCache and no instance when the
\* backing record does not exist or cannot be read: a call of new ends with
\* an instance holding the record's data, and then the record exists, or with
\* GetInitialCache and no instance. No step of new or get_or_insert makes a
\* record exist that did not.
C11_NewNeverCreates ==
    [][/\ store'.exists = store.exists
       /\ \A i \in Instances :
            inst'[i].new # inst[i].new =>
                \/ /\ store.exists
                   /\ inst'[i] = [new |-> NewOk, current_state |-> store.data]
                \/ /\ inst'[i].new = GetInitialCache
                   /\ inst'[i].new # NewOk
                   /\ inst'[i].current_state = inst[i].current_state]_vars

\* new was called on a record that does not exist: it failed, there is no
\* instance and still no record.
C11_Witness ==
    /\ ~store.exists
    /\ \E i \in Instances : inst[i].new = GetInitialCache /\ ~Live(i)

\* The fields of a cache error
ErrorFields(e) == DOMAIN e \ {"kind"}

\* C12: every error the cache returns carries the identity of the backing
\* record, the save and post-save errors carry the key of their call, and no
\* field of an error holds credential bytes; two calls for one key that fail
\* the same way return the same error whatever value each generated.
C12_ErrorsWithoutTheValue ==
    /\ \A i \in Instances :
         inst[i].new.kind = "GetInitialCache" =>
            /\ inst[i].new.cache_ref = CacheRef
            /\ \A f \in ErrorFields(inst[i].new) : inst[i].new[f] \notin Values
    /\ \A t \in Tasks :
         Returned(t) /\ call[t].result.kind \in {"SaveToCache", "SavedKeyNotFound"} =>
            /\ call[t].result.cache_ref = CacheRef
            /\ call[t].result.key = call[t].key
            /\ \A f \in ErrorFields(call[t].result) : call[t].result[f] \notin Values
    /\ \A t, u \in Tasks :
         /\ Returned(t) /\ Returned(u)
         /\ call[t].result.kind \in {"SaveToCache", "SavedKeyNotFound"}
         /\ call[t].result.kind = call[u].result.kind
         /\ call[t].key = call[u].key
         => call[t].result = call[u].result

\* Two calls for one key generated different values and both failed to save.
C12_Witness ==
    \E t, u \in Tasks :
        /\ Returned(t) /\ Returned(u)
        /\ call[t].result.kind = "SaveToCache" /\ call[u].result.kind = "SaveToCache"
        /\ call[t].key = call[u].key
        /\ call[t].value # None /\ call[u].value # None
        /\ call[t].value # call[u].value

\* ---------------------------------------------------- claims on rust/krb5
\* The native calls of the last operation that returned a failure status
Failing == {j \in 1..Len(ncalls) : ncalls[j].status # 0}

\* The calls of a sequence that allocate, and that release, m
Makes(tr, m) == {j \in 1..Len(tr) : tr[j].makes = m}
Frees(tr, m) == {j \in 1..Len(tr) : tr[j].frees = m}

\* The error outcomes of the wrappers
ErrorKinds == {"Krb5", "StringTooLong", "kadm5"}

\* The native calls a drop makes whose status it checks
TeardownFns == {"kadm5_destroy", "krb5_kt_close", "kadm5_free_kadm5_key_data"}

\* C13: every live derived entity refers to a KrbContext that is not freed;
\* krb5_free_context is called on a context only when nothing derived from it
\* is alive; every native call of a step receives a context that is live
\* when the step begins, and handles of wrappers whose context is: wrappers
\* alive when the step begins, or made earlier in the step from a live
\* context.
C13_ContextOutlivesDerived ==
    [][/\ \A o \in Objs : obj'[o].kind # "none" => kctx'[obj'[o].ctx] = "live"
       /\ \A j \in 1..Len(ncalls') :
            LET nc == ncalls'[j]
            IN /\ nc.ctx # 0 => kctx[nc.ctx] = "live"
               /\ nc.fn = "krb5_free_context" =>
                     \A o \in Objs : obj[o].kind = "none" \/ obj[o].ctx # nc.ctx
               /\ \A x \in 1..Len(nc.handles) :
                     LET h == nc.handles[x]
                     IN IF obj[h].kind # "none"
                        THEN kctx[obj[h].ctx] = "live"
                        ELSE \E i \in 1..(j - 1) :
                                /\ ncalls'[i].makes = ObjMem(h)
                                /\ kctx[ncalls'[i].ctx] = "live"]_kvars

\* One context was freed, after everything derived from it was gone, while a
\* wrapper derived from the other context is alive.
C13_Witness ==
    /\ op.fn = "KrbContext::drop" /\ op.args = <<1>>
    /\ kctx[1] = "freed"
    /\ \E o \in Owners : obj[o].kind # "none" /\ obj[o].ctx = 2

\* The free function that matches a wrapper type
FreeFn(o) ==
    CASE o = "Principal" -> "krb5_free_principal"
      [] o = "DefaultRealm" -> "krb5_free_default_realm"
      [] o = "KrbData" -> "krb5_free_data_contents"
      [] o = "Keyblock" -> "krb5_free_keyblock"
      [] o = "Keytab" -> "krb5_kt_close"
      [] o = "ServerHandle" -> "kadm5_destroy"
      [] o = "KeyDataVec" -> "kadm5_free_kadm5_key_data"

\* In the calls tr of a step, allocation m is handled as its wrapper's fate
\* asks. When no call of the step makes or releases m, its wrapper is alive
\* after the step exactly if it was before. Otherwise only calls of function fn
\* release m, and: alive before and after, it is neither made nor released;
\* alive before only, it is released by one call; alive after only, it is made
\* by one call and not released; alive neither before nor after, one call made
\* it and one later call releases it.
Paired(tr, m, fn, before, after) ==
    IF \A j \in 1..Len(tr) : tr[j].makes # m /\ tr[j].frees # m
    THEN before = after
    ELSE LET made == Makes(tr, m)
             freed == Frees(tr, m)
         IN /\ \A j \in freed : tr[j].fn = fn
            /\ before /\ after => made = {} /\ freed = {}
            /\ before /\ ~after => made = {} /\ Cardinality(freed) = 1
            /\ ~before /\ after => Cardinality(made) = 1 /\ freed = {}
            /\ ~before /\ ~after =>
                 /\ Cardinality(made) = 1 /\ Cardinality(freed) = 1
                 /\ \A i \in made, j \in freed : i < j

\* C14: every native allocation a successful constructor made is released
\* by exactly one matching free call when its wrapper goes, never by none and
\* never by two, also when a constructor fails after it allocated; a
\* constructor whose native call failed causes no free call.
C14_OneFreePerAllocation ==
    [][/\ \A o \in Owners :
            Paired(ncalls', ObjMem(o), FreeFn(o),
                   obj[o].kind # "none", obj'[o].kind # "none")
       /\ \A c \in Ctxs :
            Paired(ncalls', CtxMem(c), "krb5_free_context",
                   kctx[c] = "live", kctx'[c] = "live")]_kvars

\* from_password failed on the length of the password after its keyblock was
\* allocated, and the keyblock was freed.
C14_Witness ==
    /\ op.fn = "Keyblock::from_password"
    /\ outcome.kind = "StringTooLong"
    /\ obj["Keyblock"].kind = "none"
    /\ Makes(ncalls, ObjMem("Keyblock")) # {}
    /\ Frees(ncalls, ObjMem("Keyblock")) # {}

\* The native calls that take a context, or a ServerHandle, and handles of
\* derived values
MixingFns == {"krb5_kt_add_entry", "krb5_c_string_to_key", "kadm5_create_principal",
              "kadm5_get_principal_keys"}

\* C15: in every native call that takes a context (or the ServerHandle of a
\* context) and derived handles, every handle passed was created from that
\* context.
C15_SameContext ==
    \A j \in 1..Len(ncalls) :
        LET nc == ncalls[j]
            c == IF nc.ctx # 0 THEN nc.ctx ELSE obj[nc.handles[1]].ctx
        IN nc.fn \in MixingFns =>
              \A x \in 1..Len(nc.handles) :
                  obj[nc.handles[x]].kind # "none" => obj[nc.handles[x]].ctx = c

\* C16: every borrowed view is dead before its owner is released: the owner
\* of a live KeyblockRef, KeyDataRef or byte view is alive, and so is the
\* owner of every view a native call was handed.
C16_ViewsDieBeforeOwners ==
    /\ \A v \in ViewKinds :
         obj[v].kind # "none" => obj[obj[v].owner].kind = obj[v].owner
    /\ \A j \in 1..Len(ncalls) : \A x \in 1..Len(ncalls[j].handles) :
         LET h == ncalls[j].handles[x]
         IN h \in ViewKinds =>
               obj[h].kind = h /\ obj[obj[h].owner].kind = obj[h].owner

\* A KeyblockRef of a live Keyblock was handed to krb5_kt_add_entry.
C16_Witness ==
    /\ op.fn = "Keytab::add" /\ op.args = <<"KeyblockRef">>
    /\ obj["KeyblockRef"].kind = "KeyblockRef"
    /\ obj["Keyblock"].kind = "Keyblock"

\* C17 as stated: a failing kadm5_destroy panics, and every other failing
\* native call is reported as an ordinary error and never panics.
C17_AsStated ==
    \A j \in Failing :
        IF ncalls[j].fn = "kadm5_destroy"
        THEN outcome.kind = "panic"
        ELSE outcome.kind \in ErrorKinds

\* C17: a failing teardown call (kadm5_destroy, krb5_kt_close,
\* kadm5_free_kadm5_key_data) panics and is never ignored; every other
\* failing native call never panics: its operation returns an ordinary
\* error, or, in Display for Principal, the text "(invalid)".
C17_TeardownFailuresPanic ==
    \A j \in Failing :
        IF ncalls[j].fn \in TeardownFns
        THEN outcome.kind = "panic"
        ELSE \/ outcome.kind \in ErrorKinds
             \/ op.fn = "Principal::fmt" /\ outcome.kind = "Ok"

\* The release of a Keytab failed, and panicked.
C17_Witness ==
    /\ op.fn = "drop" /\ op.args = <<"Keytab">>
    /\ \E j \in Failing : ncalls[j].fn = "krb5_kt_close"
    /\ outcome.kind = "panic"

\* C18 as stated: whenever a native or administrative call of an operation
\* returns a failure status, the operation returns an error.
C18_AsStated ==
    \A j \in Failing : outcome.kind \in ErrorKinds

\* C18: whenever a native or administrative call of an operation returns a
\* failure status, the operation returns an error with that status, except
\* that a failing teardown call panics and that Display for Principal
\* returns the text "(invalid)".
C18_FailuresReachTheCaller ==
    \A j \in Failing :
        \/ outcome.kind \in {"Krb5", "kadm5"} /\ outcome.code = ncalls[j].status
        \/ ncalls[j].fn \in TeardownFns /\ outcome.kind = "panic"
        \/ op.fn = "Principal::fmt" /\ outcome = Ok("(invalid)")

\* An administrative call failed and its caller got the error.
C18_Witness ==
    /\ op.fn = "ServerHandle::create_principal"
    /\ Failing # {}
    /\ outcome.kind = "kadm5"

\* The native calls whose status goes through from_call_result
Krb5StatusFns ==
    {"krb5_init_context", "krb5_parse_name", "krb5_get_default_realm",
     "krb5_principal2salt", "krb5_unparse_name_flags", "krb5_init_keyblock",
     "krb5_c_string_to_key", "krb5_kt_resolve", "krb5_kt_add_entry", "krb5_kt_close"}

\* C19: a native call whose status from_call_result handles is followed by
\* no message fetch when it succeeded; when it failed it is followed at once
\* by one krb5_get_error_message for its status and one
\* krb5_free_error_message of that buffer, the only ones of the operation,
\* and an error returned for it holds the status and an owned copy of the
\* message, nothing else.
C19_MessageFetchedAndFreedOnce ==
    \A j \in 1..Len(ncalls) :
        LET nc == ncalls[j]
        IN nc.fn \in Krb5StatusFns =>
             IF nc.status = 0
             THEN j < Len(ncalls) => ncalls[j + 1].fn # "krb5_get_error_message"
             ELSE /\ j + 2 <= Len(ncalls)
                  /\ ncalls[j + 1].fn = "krb5_get_error_message"
                  /\ ncalls[j + 1].arg = Some(nc.status)
                  /\ ncalls[j + 2].fn = "krb5_free_error_message"
                  /\ ncalls[j + 2].ctx = ncalls[j + 1].ctx
                  /\ Makes(ncalls, MsgMem) = {j + 1}
                  /\ Frees(ncalls, MsgMem) = {j + 2}
                  /\ outcome.kind = "Krb5" =>
                       /\ DOMAIN outcome = {"kind", "message", "code"}
                       /\ outcome.code = nc.status
                       /\ outcome.message =
                            to_string_lossy(LibMessage(ncalls[j + 1].ctx, nc.status))

\* A native call on a context failed: its message was fetched and freed, and
\* the error was returned.
C19_Witness ==
    /\ op.fn = "Keytab::resolve"
    /\ outcome.kind = "Krb5"
    /\ Makes(ncalls, MsgMem) # {} /\ Frees(ncalls, MsgMem) # {}

\* A length that does not fit a 32-bit signed field
TooLong(len) == len[1] > 0 \/ len[2] > I32_MAX

\* C20 as stated: for a password longer than 2^31 - 1, from_password
\* returns StringTooLong and passes no length to krb5_c_string_to_key.
C20_AsStated ==
    op.fn = "Keyblock::from_password" /\ TooLong(op.args[2]) =>
        /\ outcome = StringTooLong("password")
        /\ \A j \in 1..Len(ncalls) : ncalls[j].fn # "krb5_c_string_to_key"

\* C20: for a password longer than 2^31 - 1, from_password never calls
\* krb5_c_string_to_key and returns an error: StringTooLong when the
\* allocation of the keyblock before the conversion succeeded, the error of
\* that allocation otherwise. Every length krb5_c_string_to_key receives is
\* the length of the password. contents_mut never fails: its view has the
\* length in the keyblock's field, or is empty when that is not positive.
C20_LengthsAreNeverWrapped ==
    /\ op.fn = "Keyblock::from_password" =>
         LET password == op.args[2]
             derive == {j \in 1..Len(ncalls) : ncalls[j].fn = "krb5_c_string_to_key"}
         IN /\ TooLong(password) =>
                 /\ derive = {}
                 /\ IF Makes(ncalls, ObjMem("Keyblock")) # {}
                    THEN outcome = StringTooLong("password")
                    ELSE outcome.kind = "Krb5"
            /\ \A j \in derive :
                 ~TooLong(password) /\ ncalls[j].arg = Some(password[2])
    /\ op.fn = "Keyblock::contents_mut" =>
         /\ outcome.kind = "Ok"
         /\ obj["Bytes"].count = IF op.args[1] > 0 THEN op.args[1] ELSE 0

\* A password of 2^31 bytes was refused after the keyblock was allocated.
C20_Witness ==
    /\ op.fn = "Keyblock::from_password"
    /\ op.args[2] = USize(1, 0)
    /\ outcome = StringTooLong("password")

\* ------------------------------------------- claims on the native data
\* The principals the service holds
Existing == {e.principal : e \in service}

AllZero(view) == view.len = USize(0, 0) \/ view.bytes = "zero"

\* C22: a successful Keyblock::new(ctx, enctype, len) returns key material
\* whose exposed contents have length len and are all zero; for len = 0 the
\* view is the empty slice and points into no native buffer.
C22_ZeroedOfTheLengthAsked ==
    op.fn = "Keyblock::new" /\ outcome = Ok(Unit) =>
        LET len == op.args[1]
            view == View(key_block[1])
        IN /\ view.len = len
           /\ AllZero(view)
           /\ view.ptr # "NULL"
           /\ len = USize(0, 0) => view.ptr = "dangling"

Canonical(p) == <<p.name, "@", p.realm>>

\* C24: a parsed principal has the name of its text and the realm of its
\* text, or the default realm of the context when the text names none;
\* unparsing it gives name@REALM under Always, the name alone under Never,
\* and under IfForeign the name alone exactly when its realm is the default
\* realm; the flags passed hold the bit of the realm mode (none for Always)
\* and the DISPLAY bit exactly when for_display is set, and no other bit.
C24_UnparseFollowsTheRealmMode ==
    /\ op.fn = "KrbContext::parse_principal_name" /\ outcome = Ok(Unit) =>
         LET text == op.args[1]
         IN /\ parsed[1].name = text[1]
            /\ parsed[1].realm = IF Len(text) = 3 THEN text[3] ELSE config[1]
    /\ op.fn = "Principal::unparse" =>
         LET options == op.args[1]
             flags == Bits(ncalls[1].arg[1])
             p == parsed[1]
         IN /\ (KRB5_PRINCIPAL_UNPARSE_SHORT \in flags) = (options.realm = "IfForeign")
            /\ (KRB5_PRINCIPAL_UNPARSE_NO_REALM \in flags) = (options.realm = "Never")
            /\ (KRB5_PRINCIPAL_UNPARSE_DISPLAY \in flags) = options.for_display
            /\ SumOf(flags) = ncalls[1].arg[1]
            /\ outcome.kind = "Ok" =>
                 CASE options.realm = "Always" -> outcome.value = Canonical(p)
                   [] options.realm = "Never" -> outcome.value = <<p.name>>
                   [] options.realm = "IfForeign" ->
                        /\ outcome.value \in {<<p.name>>, Canonical(p)}
                        /\ (outcome.value = <<p.name>>) = (p.realm = config[1])

\* A principal of a foreign realm was unparsed under IfForeign and for
\* display, and kept its realm.
C24_Witness ==
    /\ op.fn = "Principal::unparse"
    /\ op.args[1] = [realm |-> "IfForeign", for_display |-> TRUE]
    /\ parsed[1].realm # config[1]
    /\ outcome = Ok(Canonical(parsed[1]))

\* s is the beginning of t
IsPrefix(s, t) == Len(s) <= Len(t) /\ \A i \in 1..Len(s) : t[i] = s[i]

\* C25: over every step the keytab keeps the entries it has, in their order
\* and as they are; it gets one only by a Keytab::add that succeeds, and then
\* exactly that of the principal, the kvno and the contents the key has at
\* the call; add releases nothing and leaves the Principal and the Keyblock
\* as they are; the native principal and keyblock are released only by the
\* drop of their wrapper, by one call.
C25_KeytabOnlyAppends ==
    [][/\ IsPrefix(key_table.entries, key_table'.entries)
       /\ IF op'.fn = "Keytab::add" /\ outcome' = Ok(Unit)
          THEN key_table'.entries =
                 Append(key_table.entries,
                        [principal |-> parsed[1], vno |-> op'.args[1],
                         enctype |-> key_block[1].enctype,
                         contents |-> [len |-> View(key_block[1]).len,
                                       bytes |-> View(key_block[1]).bytes]])
          ELSE key_table'.entries = key_table.entries
       /\ op'.fn = "Keytab::add" =>
            /\ \A j \in 1..Len(ncalls') :
                 ncalls'[j].frees \notin {ObjMem("Principal"), ObjMem("Keyblock")}
            /\ parsed' = parsed /\ key_block' = key_block
       /\ \A o \in {"Principal", "Keyblock"} :
            LET held == IF o = "Principal" THEN parsed ELSE key_block
                held_after == IF o = "Principal" THEN parsed' ELSE key_block'
            IN Frees(ncalls', ObjMem(o)) # {} =>
                 /\ op'.fn = "drop" /\ op'.args = <<o>>
                 /\ Cardinality(Frees(ncalls', ObjMem(o))) = 1
                 /\ held # None /\ held_after = None]_allvars

\* An entry was added, and then the Keyblock it was made from was written
\* to and dropped; the entry holds the contents of the time of the call.
C25_Witness ==
    /\ op.fn = "drop" /\ op.args = <<"Keyblock">>
    /\ Len(key_table.entries) = 2
    /\ key_table.entries[1].contents.bytes = "zero"
    /\ key_table.entries[2].contents.bytes = "0xAA"

\* C26: a NodePublishVolume request calls the backend at most once; a
\* request that returned because its selector did not parse or because the
\* backend failed returned an error status and wrote nothing under its
\* target path; every request whose selector parsed called the backend,
\* whatever earlier requests for the target path returned.
C26_OneFetchPerRequest ==
    \A r \in 1..MaxRequests :
        /\ publish[r].fetches <= 1
        /\ publish[r].pc \in {"get_secret_data", "save_secret_data"} =>
             publish[r].fetches = 1
        /\ publish[r].pc = "done" =>
             /\ publish[r].fetches = 0 <=>
                  /\ publish[r].result.kind = "Err"
                  /\ publish[r].result.error = "InvalidSelector"
             /\ publish[r].result.kind = "Err"
                  /\ publish[r].result.error
                       \in {"InvalidSelector", "BackendGetSecretData"}
                  => publish[r].wrote = {}
        /\ publish[r].pc # "done" => publish[r].result = NoResult

\* A request failed in the backend; a later one for the same target path
\* called the backend itself and wrote the files.
C26_Witness ==
    \E r \in 1..MaxRequests, q \in 1..MaxRequests :
        /\ r < q
        /\ publish[r].target_path = publish[q].target_path
        /\ publish[r].pc = "done" /\ publish[r].result.kind = "Err"
        /\ publish[r].result.error = "BackendGetSecretData"
        /\ publish[r].fetches = 1 /\ publish[r].wrote = {}
        /\ publish[q].pc = "done" /\ publish[q].result = Ok(Unit)
        /\ publish[q].fetches = 1 /\ publish[q].wrote # {}

\* C27: the message of a failing native call is fetched with no context
\* exactly when the failing call is the context initialisation: every other
\* call site passes the context it ran against.
C27_NoContextOnlyAtInit ==
    \A j \in 1..Len(ncalls) :
        ncalls[j].fn = "krb5_get_error_message" =>
            /\ j > 1
            /\ ncalls[j - 1].status # 0
            /\ ncalls[j].ctx = 0 <=>
                 ncalls[j - 1].fn \in {"krb5_init_context", "krb5_init_context_profile"}
            /\ ncalls[j].ctx # 0 => ncalls[j].ctx = ncalls[j - 1].ctx

\* C28: a call whose generator succeeded and whose patch failed returns
\* SaveToCache; over the call the instance's current_state stays what it
\* was, without the key; neither the error nor current_state holds the
\* generated bytes; the same caller's next call for that key on that
\* instance runs the generator again.
C28_FailedSaveKeepsNothing ==
    [][\A t \in Tasks :
        /\ call[t].pc \in {"generating", "patching"} /\ call'[t].response = None
           => inst'[call[t].self] = inst[call[t].self]
        /\ (call[t].pc = "patching" /\ call'[t].pc = "returned"
              /\ call'[t].response = None)
           => /\ call[t].value # None
              /\ call'[t].result = SaveToCache(call[t].key)
              /\ \A f \in ErrorFields(call'[t].result) :
                    call'[t].result[f] \notin Values
              /\ inst' = inst
              /\ call[t].key \notin DOMAIN inst'[call[t].self].current_state
        /\ (Returned(t) /\ call[t].result.kind = "SaveToCache" /\ Begins(t)
              /\ call'[t].self = call[t].self /\ call'[t].key = call[t].key)
           => call'[t].pc = "generating" /\ call'[t].gens = 1
      ]_vars

\* A call's patch failed although the store applied it: the backing record
\* holds the generated bytes under the key, the instance's current_state
\* does not hold the key.
C28_Witness ==
    \E t \in Tasks :
        /\ Returned(t) /\ call[t].result = SaveToCache(call[t].key)
        /\ call[t].value # None
        /\ call[t].key \in DOMAIN store.data
        /\ store.data[call[t].key] = call[t].value[1]
        /\ call[t].key \notin DOMAIN inst[call[t].self].current_state

\* C29: a call invokes the generator exactly when it begins and the key is
\* absent from the instance's current_state, whatever the backing record
\* holds, and never again; it sends a patch only when its generator returns
\* bytes, and no second one; the current_state of an instance changes only
\* when a call on it gets the answer of its patch, and becomes that answer,
\* after which the call has returned.
C29_StepsInOrder ==
    [][/\ \A t \in Tasks :
            /\ Begins(t)
               => /\ call'[t].gens = (IF call'[t].key \in
                                           DOMAIN inst[call'[t].self].current_state
                                      THEN 0 ELSE 1)
                  /\ call'[t].sent = <<>>
                  /\ inst' = inst /\ store' = store
            /\ call'[t].gens # call[t].gens
               => Begins(t) \/ call'[t].gens = 0
            /\ call'[t].sent # call[t].sent /\ call'[t].sent # <<>>
               => /\ call[t].pc = "generating" /\ call[t].gens = 1
                  /\ call[t].sent = <<>> /\ Len(call'[t].sent) = 1
                  /\ call'[t].value # None
                  /\ inst' = inst
       /\ inst' # inst
          => \A i \in Instances :
               Live(i) /\ inst'[i] # inst[i]
               => \E u \in Tasks :
                    /\ call[u].self = i /\ call[u].pc = "patching"
                    /\ Len(call[u].sent) = 1
                    /\ call'[u].pc = "returned" /\ call'[u].response # None
                    /\ inst'[i].current_state = call'[u].response[1]
      ]_vars

\* A call is in its generator although the backing record holds its key:
\* the instance's current_state does not.
C29_Witness ==
    \E t \in Tasks :
        /\ call[t].pc = "generating" /\ call[t].gens = 1
        /\ call[t].key \in DOMAIN store.data
        /\ call[t].key \notin DOMAIN inst[call[t].self].current_state
====
